---- MODULE Spec2Model ----
(***************************************************************************)
(* Place resolution and itinerary post-processing of tripgen-server        *)
(* (src/server.js): the in-process cache placeDetailsCache, the persistent *)
(* cache places_cache, fetchPlaceDetails, and the post-processing loops of *)
(* /api/generate-trip and /api/modify-trip.                                *)
(*                                                                         *)
(* Strings are modelled as sequences of tokens: String.includes(k) is      *)
(* "the token k occurs", and ilike '%n%' is "n is a contiguous infix".     *)
(* Token glossary (the source's Korean literals):                          *)
(*   "checkin" = 체크인, "sukso" = 숙소, "bokgwi" = 복귀, "idong" = 이동,  *)
(*   "meal" = 식사 (type), "sight" = 관광 (type), "lodging" = 숙소 (type), *)
(*   "waxing" = 왁싱, "spa" = 스파, "cafe" = 카페, "siksa" = 식사 (word),  *)
(*   "bakery" = 베이커리, "bread" = 빵, "beauty" = 뷰티, "eseo" = 에서,    *)
(*   "hyusik" = 휴식, "cheheom" = 체험.                                    *)
(* URLs are records [k |-> kind, ...]; null/undefined is NullUrl.          *)
(***************************************************************************)
EXTENDS Integers, Sequences, FiniteSets, TLC

VARIABLES
  cache,      \* placeDetailsCache restricted to the modelled raw names
  cacheOther, \* number of placeDetailsCache entries under other keys
  db,         \* places_cache: a set of rows
  healq,      \* detached places_cache updates issued by healing, in flight
  task,       \* the concurrent activity resolutions (one per task)
  prev,       \* history: the resolution that completed last
  post,       \* the post-processor (one request at a time), see below
  route,      \* one calculateRoute call and the directions calls it made
  imgcall,    \* one fetchNaverImage call and the searches it issued
  sweep,      \* the runs of runImageHealthCheck in progress
  dead,       \* environment: the image URLs a HEAD request fails on
  user_limits, \* the user_limits row of one user
  gen,        \* the generate-trip requests of that user (one per task)
  completed,  \* history: generate-trip requests answered 200 this month
  ADMIN_EMAIL, \* environment: process.env.NEXT_PUBLIC_ADMIN_EMAIL
  rows,       \* community, community_comments and suggestions: a set of rows
  del         \* one DELETE request between its select and its delete

\* the state of the account and board handlers
web == <<user_limits, gen, completed, ADMIN_EMAIL, rows, del>>

vars == <<cache, cacheOther, db, healq, task, prev, post, route, imgcall, sweep, dead, web>>

(***************************************************************************)
(* Bounds of the model.                                                    *)
(***************************************************************************)
NTasks == 2

Tasks == 1..NTasks

(***************************************************************************)
(* Values.                                                                 *)
(***************************************************************************)
NoId == "null"
NullUrl == [k |-> "null"]
NoName == << >>
Absent == [k |-> "absent"]

\* obj[f] in JavaScript: undefined (modelled by the default) when f is not a key
Get(obj, f, default) == IF f \in DOMAIN obj THEN obj[f] ELSE default

\* { ...a, ...b }
Spread(a, b) ==
  [f \in DOMAIN a \cup DOMAIN b |-> IF f \in DOMAIN b THEN b[f] ELSE a[f]]

\* String.prototype.includes on token strings
Includes(s, k) == \E i \in 1..Len(s) : s[i] = k

\* ilike '%n%': n occurs in s as a contiguous run of tokens
IsInfix(n, s) ==
  \E i \in 0..(Len(s) - Len(n)) : \A j \in 1..Len(n) : s[i + j] = n[j]

Truthy(url) == url # NullUrl

(***************************************************************************)
(* The external place search (Google Places searchText): the places that   *)
(* exist, and which of them a raw name can be answered with.               *)
(***************************************************************************)
PlaceIds == {"p1", "p2", "p3"}

ExtPlace(p) ==
  CASE p = "p1" ->
         [id |-> "p1", displayName |-> <<"gyoja">>, types |-> {"restaurant"},
          websiteUri |-> [k |-> "web", of |-> "p1"],
          googleMapsUri |-> [k |-> "map", of |-> "p1"],
          formattedAddress |-> <<"junggu">>, userRatingCount |-> 120]
    [] p = "p2" ->
         [id |-> "p2", displayName |-> <<"park">>, types |-> {"park"},
          websiteUri |-> NullUrl,
          googleMapsUri |-> [k |-> "map", of |-> "p2"],
          formattedAddress |-> <<"yongsan">>, userRatingCount |-> 45]
    [] OTHER ->
         [id |-> "p3", displayName |-> <<"waxing", "shop">>, types |-> {"beauty_salon"},
          websiteUri |-> NullUrl, googleMapsUri |-> NullUrl,
          formattedAddress |-> NoName, userRatingCount |-> 0]

Candidates(n) ==
  CASE n = <<"gyoja">> -> {"p1"}
    [] n = <<"gyoza">> -> {"p1"}
    [] n = <<"kyoja">> -> {"p1"}
    [] n = <<"park">> -> {"p2"}
    [] n = <<"waxing", "shop">> -> {"p3"}
    [] OTHER -> {}

\* what one searchText call can answer: a throw, an empty list, or a place
SearchOutcomes(n) == {"fail", "none"} \cup Candidates(n)

(***************************************************************************)
(* getFallbackImage, FALLBACK_IMAGES                                       *)
(***************************************************************************)
FALLBACK_IMAGE_URL == [k |-> "unsplash", photo |-> "1476514525535"]

FALLBACK_IMAGES(cat) ==
  CASE cat = "food" -> [k |-> "unsplash", photo |-> "1504674900247"]
    [] cat = "nature" -> [k |-> "unsplash", photo |-> "1441974231531"]
    [] cat = "city" -> [k |-> "unsplash", photo |-> "1449824913935"]
    [] cat = "culture" -> [k |-> "unsplash", photo |-> "1566073771259"]
    [] cat = "hotel" -> [k |-> "unsplash", photo |-> "1566073771259"]
    [] OTHER -> NullUrl

getFallbackImage(types) ==
  IF types = {} THEN
    (IF Truthy(FALLBACK_IMAGES("default")) THEN FALLBACK_IMAGES("default")
     ELSE FALLBACK_IMAGE_URL)
  ELSE IF types \cap {"restaurant", "food", "cafe", "bar", "bakery", "meal_takeaway"} # {}
    THEN FALLBACK_IMAGES("food")
  ELSE IF types \cap {"park", "campground", "natural_feature", "amusement_park"} # {}
    THEN FALLBACK_IMAGES("nature")
  ELSE IF types \cap {"museum", "art_gallery", "church", "place_of_worship",
                      "library", "university"} # {}
    THEN FALLBACK_IMAGES("culture")
  ELSE IF types \cap {"lodging", "hotel", "guest_house"} # {}
    THEN FALLBACK_IMAGES("hotel")
  ELSE FALLBACK_IMAGES("city")

(***************************************************************************)
(* placeDetailsCache and addToCache.  An entry is Absent, a pending        *)
(* promise of a task's fetchPlaceDetails call, or a value (a settled       *)
(* promise, or a plain object; `own` is the task that still holds a         *)
(* reference to the object and may mutate it, 0 when none does).           *)
(***************************************************************************)
MAX_CACHE_SIZE == 1000

Pending(t) == [k |-> "pending", t |-> t]
Val(v, t) == [k |-> "val", v |-> v, own |-> t]

CacheHas(c, key) == c[key] # Absent

CacheSize(c, other) == Cardinality({key \in DOMAIN c : c[key] # Absent}) + other

\* placeDetailsCache.set(key, value): the map and the count of other keys
CacheSet(c, other, key, value) ==
  [m |-> [c EXCEPT ![key] = value], other |-> other]

CacheClear(c) == [key \in DOMAIN c |-> Absent]

addToCache(c, other, key, value) ==
  IF CacheSize(c, other) >= MAX_CACHE_SIZE
  THEN CacheSet(CacheClear(c), 0, key, value)
  ELSE CacheSet(c, other, key, value)

(***************************************************************************)
(* places_cache (Supabase) as fetchPlaceDetails uses it.                   *)
(***************************************************************************)
NoRef == "null"

\* .or(`place_name.eq.${placeName},search_keywords.ilike.%${placeName}%`)
DbMatches(d, n) ==
  {r \in d : r.place_name = n \/ IsInfix(n, r.search_keywords)}

\* .upsert([row], { onConflict: 'place_id' })
DbUpsert(d, row) == {r \in d : r.place_id # row.place_id} \cup {row}

\* .update({ photo_url, photo_reference }).eq('place_id', id)
DbUpdatePhoto(d, u) ==
  {IF r.place_id = u.place_id
   THEN [r EXCEPT !.photo_url = u.photo_url, !.photo_reference = u.photo_reference]
   ELSE r : r \in d}

\* [a, b, c].filter(Boolean).join('|')
RECURSIVE JoinPipe(_)
JoinPipe(parts) ==
  IF parts = << >> THEN << >>
  ELSE IF Head(parts) = NoName THEN JoinPipe(Tail(parts))
  ELSE LET rest == JoinPipe(Tail(parts))
       IN IF rest = << >> THEN Head(parts) ELSE Head(parts) \o <<"|">> \o rest

(***************************************************************************)
(* fetchPlaceDetails: the records it builds.                               *)
(***************************************************************************)
\* mutant: the check-in marker is not tested
IsLodgingMarkerNoCheckin(n) ==
  Includes(n, "sukso") \/ Includes(n, "bokgwi")

\* line 181
IsLodgingMarker(n) ==
  Includes(n, "checkin") \/ Includes(n, "sukso") \/ Includes(n, "bokgwi")

LodgingPlace(n) ==
  [place_name |-> n, type |-> "lodging",
   photoUrl |-> getFallbackImage({"lodging", "hotel"})]

FallbackPlace(n) == [place_name |-> n, photoUrl |-> getFallbackImage({})]

\* mutant: the conversion names the place by the raw query name
ConvertRowRawName(n, row) ==
  [place_id |-> row.place_id,
   place_name |-> n,
   ratingCount |-> row.rating_count,
   googleMapsUri |-> row.google_maps_uri,
   websiteUri |-> row.website_uri,
   photoUrl |-> row.photo_url,
   photoReference |-> row.photo_reference,
   types |-> row.types]

\* the snake_case -> camelCase conversion returned on a places_cache hit
ConvertRow(n, row) ==
  [place_id |-> row.place_id,
   place_name |-> row.place_name,
   ratingCount |-> row.rating_count,
   googleMapsUri |-> row.google_maps_uri,
   websiteUri |-> row.website_uri,
   photoUrl |-> row.photo_url,
   photoReference |-> row.photo_reference,
   types |-> row.types]

\* searchName = place.displayName?.text || placeName
SearchName(n, place) ==
  IF place.displayName # NoName THEN place.displayName ELSE n

\* photoUrl = (await fetchNaverImage(searchQuery)) || getFallbackImage(place.types)
PhotoOrFallback(image, place) ==
  IF Truthy(image) THEN image ELSE getFallbackImage(place.types)

PlaceData(n, place, photoUrl) ==
  [place_id |-> place.id,
   place_name |-> SearchName(n, place),
   ratingCount |-> place.userRatingCount,
   googleMapsUri |-> place.googleMapsUri,
   websiteUri |-> place.websiteUri,
   photoUrl |-> photoUrl,
   photoReference |-> NoRef,
   types |-> place.types]

\* mutant: the row takes its key from placeData.id, which is undefined
UpsertRowWrongKey(n, placeData, place) ==
  [place_id |-> Get(placeData, "id", NoId),
   place_name |-> placeData.place_name,
   search_keywords |-> JoinPipe(<<n, placeData.place_name, place.formattedAddress>>),
   rating_count |-> placeData.ratingCount,
   google_maps_uri |-> placeData.googleMapsUri,
   website_uri |-> placeData.websiteUri,
   photo_url |-> placeData.photoUrl,
   photo_reference |-> NoRef,
   types |-> placeData.types]

UpsertRow(n, placeData, place) ==
  [place_id |-> placeData.place_id,
   place_name |-> placeData.place_name,
   search_keywords |-> JoinPipe(<<n, placeData.place_name, place.formattedAddress>>),
   rating_count |-> placeData.ratingCount,
   google_maps_uri |-> placeData.googleMapsUri,
   website_uri |-> placeData.websiteUri,
   photo_url |-> placeData.photoUrl,
   photo_reference |-> NoRef,
   types |-> placeData.types]

\* what one fetchNaverImage call can answer
NaverImage == [k |-> "naver"]
ImageOutcomes == {NullUrl, NaverImage}

\* the Google photo the healing fallback derives a proxy URL from
GooglePhotoRef(id) == id
ProxyUrl(ref) == [k |-> "proxy", ref |-> ref]

(***************************************************************************)
(* The raw names the model resolves, and the places_cache rows that may    *)
(* exist when the server starts (written by earlier runs or by the         *)
(* maintenance scripts; the second has no image yet).                      *)
(***************************************************************************)
RawNames ==
  {<<"gyoja">>, <<"gyoza">>, <<"kyoja">>, <<"park">>, <<"waxing", "shop">>,
   <<"hotel", "checkin">>, <<"sukso">>, <<"idong">>}

ResolveNames == {<<"gyoza">>, <<"park">>, <<"hotel", "checkin">>}

SeedRows ==
  {[place_id |-> "p1", place_name |-> <<"gyoja">>,
    search_keywords |-> <<"gyoza", "|", "gyoja", "|", "junggu">>,
    rating_count |-> 120,
    google_maps_uri |-> [k |-> "map", of |-> "p1"],
    website_uri |-> [k |-> "web", of |-> "p1"],
    photo_url |-> NaverImage, photo_reference |-> NoRef,
    types |-> {"restaurant"}],
   [place_id |-> "p2", place_name |-> <<"park">>,
    search_keywords |-> <<"park", "|", "park", "|", "yongsan">>,
    rating_count |-> 45,
    google_maps_uri |-> [k |-> "map", of |-> "p2"],
    website_uri |-> NullUrl,
    photo_url |-> NullUrl, photo_reference |-> NoRef,
    types |-> {"park"}]}

(***************************************************************************)
(* One activity resolution: the [Cache Check] of the handlers followed by  *)
(* fetchPlaceDetails, one step per await.                                  *)
(*   pc: idle -> (await | dbread | got)                                    *)
(*       dbread -> (heal -> healgoogle | search -> image -> upsert) -> got *)
(***************************************************************************)
IdleTask ==
  [pc |-> "idle", name |-> NoName, place |-> NoId, photo |-> NullUrl,
   row |-> Absent, waitOn |-> 0, val |-> Absent, via |-> "none", nsearch |-> 0]

NoPrev == [name |-> NoName, id |-> NoId, dname |-> NoName, via |-> "none"]

EmptyMap == [n \in {} |-> Absent]

\* JS undefined, as a request field or an unset environment variable
Undefined == "undefined"

\* line 36 (admin: Infinity is never compared, line 688)
TIER_LIMITS(tier) == IF tier = "pro" THEN 30 ELSE 5

\* no generate-trip request, no DELETE request in progress
GenIdle == [pc |-> "idle", usage_count |-> 0]
DelIdle == [pc |-> "idle"]

\* the board tables: one row each, written by user u1
BoardTables == {"community", "community_comments", "suggestions"}
SeedBoard == {[table |-> tb, id |-> 1, user_id |-> "u1"] : tb \in BoardTables}

\* no request has reached the account and board handlers
WebIdle ==
  /\ user_limits = [tier |-> "free", usage_count |-> 0]
  /\ gen = [r \in Tasks |-> GenIdle]
  /\ completed = 0
  /\ ADMIN_EMAIL = "admin@x"
  /\ rows = SeedBoard
  /\ del = DelIdle

\* no calculateRoute call, no fetchNaverImage call, no sweep run in progress
RouteIdle == [pc |-> "idle"]
ImgIdle == [pc |-> "idle"]
NoSweep == << >>

PostIdle ==
  [pc |-> "idle", mode |-> "none", seen |-> {}, out |-> << >>, src |-> << >>,
   cur |-> Absent, draft |-> Absent, existing |-> EmptyMap, reused |-> {}, deduped |-> {},
   nacts |-> 0, ndrafted |-> 0, limit |-> 0, trip |-> << >>, routed |-> {},
   transit |-> {}]

\* the promise of task t's fetchPlaceDetails call settles with value v
SettleCache(c, t, v) ==
  [key \in DOMAIN c |->
     IF c[key] = Pending(t) THEN Val(v, 0)
     ELSE IF c[key].k = "val" /\ c[key].own = t THEN [c[key] EXCEPT !.own = 0]
     ELSE c[key]]

SettleTasks(tk, t, v, how) ==
  [u \in DOMAIN tk |->
     IF u = t THEN [tk[u] EXCEPT !.pc = "got", !.val = v, !.via = how]
     ELSE IF tk[u].pc = "await" /\ tk[u].waitOn = t
       THEN [tk[u] EXCEPT !.pc = "got", !.val = v, !.via = "mem", !.waitOn = 0]
     ELSE tk[u]]

\* lines 797-805 / 975-981, and fetchPlaceDetails up to its first await
StartFetch(t, n) ==
  /\ task[t].pc = "idle"
  /\ IF CacheHas(cache, n)
     THEN /\ task' = [task EXCEPT ![t] =
                 IF cache[n].k = "val"
                 THEN [IdleTask EXCEPT !.pc = "got", !.name = n,
                                       !.val = cache[n].v, !.via = "mem"]
                 ELSE [IdleTask EXCEPT !.pc = "await", !.name = n,
                                       !.waitOn = cache[n].t]]
          /\ UNCHANGED <<cache, cacheOther>>
     ELSE IF IsLodgingMarker(n)
     THEN LET c2 == addToCache(cache, cacheOther, n, Val(LodgingPlace(n), 0))
          IN /\ cache' = c2.m
             /\ cacheOther' = c2.other
             /\ task' = [task EXCEPT ![t] =
                    [IdleTask EXCEPT !.pc = "got", !.name = n,
                                     !.val = LodgingPlace(n), !.via = "struct"]]
     ELSE LET c2 == addToCache(cache, cacheOther, n, Pending(t))
          IN /\ cache' = c2.m
             /\ cacheOther' = c2.other
             /\ task' = [task EXCEPT ![t] =
                    [IdleTask EXCEPT !.pc = "dbread", !.name = n]]
  /\ UNCHANGED <<db, healq, prev, route, imgcall, sweep, dead, web>>

StartResolve(t, n) == StartFetch(t, n) /\ UNCHANGED post

\* lines 194-203 and 260-273: the places_cache answer arrives
DbHit(t, r) ==
  LET n == task[t].name
      c2 == CacheSet(cache, cacheOther, n, Val(r, t))
  IN IF Truthy(r.photo_url)
     THEN /\ cache' = SettleCache(c2.m, t, ConvertRow(n, r))
          /\ task' = SettleTasks(task, t, ConvertRow(n, r), "db")
     ELSE /\ cache' = c2.m
          /\ task' = [task EXCEPT ![t].pc = "heal", ![t].row = r]

\* mutant: a failed read rejects the promise of fetchPlaceDetails
DbReadThrows(t) ==
  /\ task[t].pc = "dbread"
  /\ \E ok \in BOOLEAN :
       IF ~ok
       THEN /\ task' = [task EXCEPT ![t].pc = "raised"]
            /\ UNCHANGED cache
       ELSE IF DbMatches(db, task[t].name) = {}
       THEN /\ task' = [task EXCEPT ![t].pc = "search",
                                    ![t].nsearch = task[t].nsearch + 1]
            /\ UNCHANGED cache
       ELSE \E r \in DbMatches(db, task[t].name) : DbHit(t, r)
  /\ UNCHANGED <<cacheOther, db, healq, prev, post, route, imgcall, sweep, dead, web>>

\* lines 194-202: the read answers; a failed read leaves data null (the
\* client returns the error, it does not throw), which is a miss
DbRead(t) ==
  /\ task[t].pc = "dbread"
  /\ \E ok \in BOOLEAN :
       IF ~ok \/ DbMatches(db, task[t].name) = {}
       THEN /\ task' = [task EXCEPT ![t].pc = "search",
                                    ![t].nsearch = task[t].nsearch + 1]
            /\ UNCHANGED cache
       ELSE \E r \in DbMatches(db, task[t].name) : DbHit(t, r)
  /\ UNCHANGED <<cacheOther, db, healq, prev, post, route, imgcall, sweep, dead, web>>

\* lines 243-257 and 260-273: healing found an image
HealDone(t, url, ref) ==
  LET n == task[t].name
      r2 == [task[t].row EXCEPT !.photo_url = url, !.photo_reference = ref]
      c2 == IF cache[n].k = "val" /\ cache[n].own = t
            THEN [cache EXCEPT ![n] = Val(r2, t)] ELSE cache
  IN /\ cache' = SettleCache(c2, t, ConvertRow(n, r2))
     /\ task' = SettleTasks(task, t, ConvertRow(n, r2), "db")
     /\ healq' = healq \cup
          {[place_id |-> r2.place_id, photo_url |-> url, photo_reference |-> ref]}

\* lines 206-214: fetchNaverImage(placeName) answers
Heal(t) ==
  /\ task[t].pc = "heal"
  /\ \E img \in ImageOutcomes :
       IF Truthy(img) THEN HealDone(t, img, NoRef)
       ELSE /\ task' = [task EXCEPT ![t].pc = "healgoogle"]
            /\ UNCHANGED <<cache, healq>>
  /\ UNCHANGED <<cacheOther, db, prev, post, route, imgcall, sweep, dead, web>>

\* lines 217-240: the searchText call for places.photos answers
HealGoogle(t) ==
  /\ task[t].pc = "healgoogle"
  /\ \E o \in {"fail", "none", "photo"} :
       IF o = "photo"
       THEN HealDone(t, ProxyUrl(GooglePhotoRef(task[t].row.place_id)),
                     GooglePhotoRef(task[t].row.place_id))
       ELSE /\ cache' = SettleCache(cache, t, ConvertRow(task[t].name, task[t].row))
            /\ task' = SettleTasks(task, t, ConvertRow(task[t].name, task[t].row), "db")
            /\ UNCHANGED healq
  /\ UNCHANGED <<cacheOther, db, prev, post, route, imgcall, sweep, dead, web>>

\* lines 248-256: the detached update reaches places_cache, or fails
HealWrite ==
  /\ \E u \in healq :
       /\ healq' = healq \ {u}
       /\ \E ok \in BOOLEAN : db' = IF ok THEN DbUpdatePhoto(db, u) ELSE db
  /\ UNCHANGED <<cache, cacheOther, task, prev, post, route, imgcall, sweep, dead, web>>

\* lines 285-304 and 376-382: the searchText call answers
Search(t) ==
  /\ task[t].pc = "search"
  /\ \E o \in SearchOutcomes(task[t].name) :
       IF o \in {"fail", "none"}
       THEN /\ cache' = SettleCache(cache, t, FallbackPlace(task[t].name))
            /\ task' = SettleTasks(task, t, FallbackPlace(task[t].name), "miss")
       ELSE /\ task' = [task EXCEPT ![t].pc = "image", ![t].place = o]
            /\ UNCHANGED cache
  /\ UNCHANGED <<cacheOther, db, healq, prev, post, route, imgcall, sweep, dead, web>>

\* lines 335-341: fetchNaverImage(searchQuery) answers
Image(t) ==
  /\ task[t].pc = "image"
  /\ \E img \in ImageOutcomes :
       task' = [task EXCEPT ![t].pc = "upsert",
                            ![t].photo = PhotoOrFallback(img, ExtPlace(task[t].place))]
  /\ UNCHANGED <<cache, cacheOther, db, healq, prev, post, route, imgcall, sweep, dead, web>>

\* mutant: a failed upsert throws into the catch of lines 376-382
UpsertThrows(t) ==
  /\ task[t].pc = "upsert"
  /\ LET n == task[t].name
         place == ExtPlace(task[t].place)
         pd == PlaceData(n, place, task[t].photo)
         row == UpsertRow(n, pd, place)
         c2 == addToCache(cache, cacheOther, n, Val(pd, 0))
     IN \E ok \in BOOLEAN :
          IF ok
          THEN /\ db' = DbUpsert(db, row)
               /\ cache' = SettleCache(c2.m, t, pd)
               /\ cacheOther' = c2.other
               /\ task' = SettleTasks(task, t, pd, "ext")
          ELSE /\ cache' = SettleCache(cache, t, FallbackPlace(n))
               /\ task' = SettleTasks(task, t, FallbackPlace(n), "miss")
               /\ UNCHANGED <<db, cacheOther>>
  /\ UNCHANGED <<healq, prev, post, route, imgcall, sweep, dead, web>>

\* lines 343-375: the upsert is acknowledged (or has failed: no throw)
Upsert(t) ==
  /\ task[t].pc = "upsert"
  /\ LET n == task[t].name
         place == ExtPlace(task[t].place)
         pd == PlaceData(n, place, task[t].photo)
         row == UpsertRow(n, pd, place)
         c2 == addToCache(cache, cacheOther, n, Val(pd, 0))
     IN /\ \E ok \in BOOLEAN :
             db' = IF ok THEN DbUpsert(db, row) ELSE db
        /\ cache' = SettleCache(c2.m, t, pd)
        /\ cacheOther' = c2.other
        /\ task' = SettleTasks(task, t, pd, "ext")
  /\ UNCHANGED <<healq, prev, post, route, imgcall, sweep, dead, web>>

\* the handler's continuation takes the details; the task is free again
TakeDetails(t) ==
  /\ task[t].pc = "got"
  /\ task' = [task EXCEPT ![t] = IdleTask]
  /\ UNCHANGED <<cache, cacheOther, db, healq, route, imgcall, sweep, dead, web>>

Finish(t) == TakeDetails(t) /\ UNCHANGED post

Done(t) == Finish(t) /\ UNCHANGED prev

\* lines 802-803 / 978-979 for names the model does not follow: their
\* resolutions insert into placeDetailsCache until it is at capacity
OthersFill ==
  /\ CacheSize(cache, cacheOther) < MAX_CACHE_SIZE
  /\ cacheOther' = MAX_CACHE_SIZE - CacheSize(cache, 0)
  /\ UNCHANGED <<cache, db, healq, task, prev, post, route, imgcall, sweep, dead, web>>

Init ==
  /\ cache = [n \in RawNames |-> Absent]
  /\ cacheOther \in {0, MAX_CACHE_SIZE - 1}
  /\ db \in SUBSET SeedRows
  /\ healq = {}
  /\ task = [t \in Tasks |-> IdleTask]
  /\ prev = NoPrev
  /\ post = PostIdle
  /\ route = RouteIdle
  /\ imgcall = ImgIdle
  /\ sweep = NoSweep
  /\ dead = {}
  /\ WebIdle

Next ==
  \/ \E t \in Tasks : \E n \in ResolveNames : StartResolve(t, n)
  \/ \E t \in Tasks : DbRead(t)
  \/ \E t \in Tasks : Heal(t)
  \/ \E t \in Tasks : HealGoogle(t)
  \/ HealWrite
  \/ \E t \in Tasks : Search(t)
  \/ \E t \in Tasks : Image(t)
  \/ \E t \in Tasks : Upsert(t)
  \/ \E t \in Tasks : Done(t)

Spec == Init /\ [][Next]_vars

(***************************************************************************)
(* The same resolver with one caller at a time: resolutions in sequence.   *)
(* prev records the resolution that completed last.                        *)
(***************************************************************************)
DoneSeq(t) ==
  /\ Finish(t)
  /\ prev' = [name |-> task[t].name,
              id |-> Get(task[t].val, "place_id", NoId),
              dname |-> task[t].val.place_name,
              via |-> task[t].via]

NextSeq ==
  \/ \E n \in ResolveNames : StartResolve(1, n)
  \/ DbRead(1)
  \/ Heal(1)
  \/ HealGoogle(1)
  \/ HealWrite
  \/ Search(1)
  \/ Image(1)
  \/ Upsert(1)
  \/ DoneSeq(1)

SpecSeq == Init /\ [][NextSeq]_vars

(***************************************************************************)
(* Claims about the resolver and the in-process cache.                     *)
(***************************************************************************)
InFlightSearches(n) ==
  {t \in Tasks : task[t].pc = "search" /\ task[t].name = n}

\* C1: at any time at most one external place search is in flight per
\* distinct raw name, for every interleaving of resolutions and addToCache.
C1_AtMostOneInFlight ==
  \A n \in RawNames : Cardinality(InFlightSearches(n)) <= 1

\* C2: the name-only fallback of a resolution miss is not retained in the
\* in-process cache.
C2_MissNotCached ==
  \A n \in RawNames :
    cache[n].k = "val" => cache[n].v # FallbackPlace(n)

\* C3: every places_cache entry has a non-null identifier, and a resolution
\* that ends as a miss or in the structural short-circuit leaves places_cache
\* as it was.
C3_PersistedHaveId ==
  /\ [](\A r \in db : r.place_id # NoId)
  /\ [][\A t \in Tasks :
          (task[t].pc # "got" /\ task'[t].pc = "got"
             /\ task'[t].via \in {"miss", "struct"}) => db' = db]_vars

C3_Witness ==
  /\ \E t \in Tasks : task[t].pc = "got" /\ task[t].via = "miss"
  /\ \E r \in db : r.place_id = "p2" /\ r.photo_url = getFallbackImage({"park"})

\* C4: a resolution that directly follows a resolution of the same raw name
\* served by places_cache returns the same identifier and the same display
\* name, and issues no external place search.
C4_Idempotent ==
  \A t \in Tasks :
    (task[t].pc = "got" /\ prev.via = "db" /\ prev.name = task[t].name)
      => /\ Get(task[t].val, "place_id", NoId) = prev.id
         /\ task[t].val.place_name = prev.dname
         /\ task[t].nsearch = 0

C4_Witness ==
  \E t \in Tasks :
    /\ task[t].pc = "got" /\ prev.via = "db" /\ prev.name = task[t].name
    /\ prev.id = "p1" /\ prev.dname # prev.name

\* C18: when the upsert that follows a successful external place search
\* fails (places_cache is left as it was), the resolver still returns the
\* fully resolved place: identifier, canonical name, rating count, links and
\* image, not the name-only fallback.
C18_WriteFailureNonFatal ==
  [][\A t \in Tasks :
       (task[t].pc = "upsert" /\ task'[t].pc = "got" /\ db' = db) =>
         LET place == ExtPlace(task[t].place)
             v == task'[t].val
         IN /\ v # FallbackPlace(task[t].name)
            /\ DOMAIN FallbackPlace(task[t].name) \subseteq DOMAIN v
            /\ v.place_id = place.id /\ v.place_id # NoId
            /\ v.place_name = place.displayName
            /\ v.ratingCount = place.userRatingCount
            /\ v.googleMapsUri = place.googleMapsUri
            /\ v.websiteUri = place.websiteUri
            /\ v.photoUrl = task[t].photo /\ Truthy(v.photoUrl)]_vars

\* a resolution has returned the place p2 found by the external search
\* while places_cache holds no entry for p2: its upsert failed
C18_Witness ==
  \E t \in Tasks :
    /\ task[t].pc = "got" /\ task[t].via = "ext"
    /\ task[t].val.place_id = "p2" /\ task[t].val.photoUrl = NaverImage
    /\ \A r \in db : r.place_id # "p2"

\* C20: a resolution of a raw name with a check-in, lodging or
\* return-to-lodging marker returns at once the minimal place tagged lodging
\* with the generic hotel image: it never waits for a places_cache read, an
\* external place search, an image search or a places_cache write, and the
\* step that serves it leaves places_cache and the healing writes untouched.
C20_MarkerShortCircuit ==
  /\ [](\A t \in Tasks :
          (\E m \in {"checkin", "sukso", "bokgwi"} : Includes(task[t].name, m)) =>
             /\ task[t].pc = "got" /\ task[t].nsearch = 0
             /\ task[t].val = [place_name |-> task[t].name, type |-> "lodging",
                               photoUrl |-> FALLBACK_IMAGES("hotel")])
  /\ [][\A t \in Tasks :
          (/\ task'[t] # task[t]
           /\ \E m \in {"checkin", "sukso", "bokgwi"} : Includes(task'[t].name, m))
            => db' = db /\ healq' = healq]_vars

\* the marker name is resolved twice: served first by the short-circuit, then
\* from the in-process cache, beside a resolution that searches
C20_Witness ==
  /\ task[1].pc = "got" /\ task[1].name = <<"hotel", "checkin">>
  /\ task[1].via = "mem" /\ cache[<<"hotel", "checkin">>].k = "val"
  /\ task[2].pc = "search"


\* C21: every place the resolver returns carries a non-null image URL.
C21_AlwaysAnImage ==
  \A t \in Tasks :
    task[t].pc = "got" => Truthy(Get(task[t].val, "photoUrl", NullUrl))



\* C24: a resolution satisfied by places_cache issues no external place
\* search (searchText), whether or not the entry has an image: it returns
\* without having searched, and no searchText call is ever in flight for a
\* resolution that hit places_cache.
C24_HitNeverSearches ==
  \A t \in Tasks :
    /\ (task[t].pc = "got" /\ task[t].via = "db") => task[t].nsearch = 0
    /\ task[t].pc # "healgoogle"


\* C25: on a places_cache hit without image the resolver makes one image
\* search with the raw name.  When it finds an image, the record returned
\* and the in-process cache entry carry it and a detached update of the
\* entry's photo_url and photo_reference is issued, the resolver returning
\* before places_cache is written.  When it finds none, no places_cache
\* write is issued and the record is returned without a new image.
C25_Healing ==
  [][\A t \in Tasks :
       LET n == task[t].name
           before == task[t].row
       IN /\ (task[t].pc = "heal" /\ task'[t].pc = "got") =>
               /\ Truthy(task'[t].val.photoUrl)
               /\ (cache'[n].k = "val" /\ "photo_url" \in DOMAIN cache'[n].v)
                    => cache'[n].v.photo_url = task'[t].val.photoUrl
               /\ [place_id |-> before.place_id,
                   photo_url |-> task'[t].val.photoUrl,
                   photo_reference |-> task'[t].val.photoReference] \in healq'
               /\ db' = db
          /\ (task[t].pc = "heal" /\ task'[t].pc = "healgoogle") => healq' = healq
          /\ (task[t].pc = "healgoogle" /\ task'[t].pc = "got") =>
               /\ healq' \subseteq healq
               /\ task'[t].val.photoUrl = before.photo_url]_vars

\* C31: a resolution served from placeDetailsCache returns the record of the
\* resolution that populated the entry (by a places_cache hit or by an
\* external search): the same field names and values for the identifier, the
\* display name, the image URL, the website and map links, the rating count
\* and the category tags.
C31_MemHitSameRecord ==
  \A t, u \in Tasks :
    (/\ task[t].pc = "got" /\ task[t].via = "mem"
     /\ task[u].pc = "got" /\ task[u].via \in {"db", "ext"}
     /\ task[t].name = task[u].name)
      => \A f \in {"place_id", "place_name", "photoUrl", "websiteUri",
                   "googleMapsUri", "ratingCount", "types"} :
           /\ f \in DOMAIN task[t].val
           /\ task[t].val[f] = task[u].val[f]

\* C32: places_cache never stores a generic fallback image: when the image
\* search of an external resolution finds nothing, the upserted entry has a
\* null image URL (the fallback image goes to the caller only), so the entry
\* is healed on a later hit.
C32_NoFallbackStored ==
  /\ \A r \in db :
       r.photo_url \notin
         {FALLBACK_IMAGE_URL} \cup
           {FALLBACK_IMAGES(cat) : cat \in {"food", "nature", "city", "culture", "hotel"}}
  /\ \A t \in Tasks :
       (/\ task[t].pc = "got" /\ task[t].via = "ext"
        /\ task[t].val.photoUrl = getFallbackImage(task[t].val.types))
         => \A r \in db : r.place_id = task[t].val.place_id => ~Truthy(r.photo_url)

(***************************************************************************)
(* calculateRoute (lines 386-405): the directions service is asked for the *)
(* modes in turn, one call per loop iteration.  route holds the call in    *)
(* progress and, as history, the directions calls it made.                  *)
(* Mode labels: "public_transit" = 대중교통, "taxi_car" = 택시/차량,        *)
(* "on_foot" = 도보.                                                       *)
(***************************************************************************)
modes == <<"transit", "driving", "walking">>

ModeLabel(mode) ==
  IF mode = "transit" THEN "public_transit"
  ELSE IF mode = "driving" THEN "taxi_car" ELSE "on_foot"

NoRoute == [mode |-> "null"]

\* what one directions call can answer: a route, no route (status not OK or
\* an empty list), or a throw (network error, malformed body)
DirectionsOutcomes == {"ok", "none", "fail"}

\* lines 386-388: the call starts; a falsy identifier returns null at once
RouteStart(originId, destId) ==
  IF originId = NoId \/ destId = NoId
  THEN [pc |-> "ret", origin |-> originId, dest |-> destId, mi |-> 1,
        calls |-> << >>, result |-> NoRoute]
  ELSE [pc |-> "call", origin |-> originId, dest |-> destId, mi |-> 1,
        calls |-> << >>, result |-> NoRoute]

\* mutant: a throwing directions call ends the loop instead of continuing
RouteIterStopOnFail(r, outcome) ==
  LET mode == modes[r.mi]
      calls2 == Append(r.calls, [mode |-> mode, outcome |-> outcome])
  IN IF outcome = "ok"
     THEN [r EXCEPT !.pc = "ret", !.calls = calls2,
                    !.result = [mode |-> ModeLabel(mode),
                                leg |-> <<r.origin, r.dest, mode>>]]
     ELSE IF r.mi = Len(modes) \/ outcome = "fail"
     THEN [r EXCEPT !.pc = "ret", !.calls = calls2]
     ELSE [r EXCEPT !.mi = r.mi + 1, !.calls = calls2]

\* lines 390-404: one iteration of the loop over the modes
RouteIter(r, outcome) ==
  LET mode == modes[r.mi]
      calls2 == Append(r.calls, [mode |-> mode, outcome |-> outcome])
  IN IF outcome = "ok"
     THEN [r EXCEPT !.pc = "ret", !.calls = calls2,
                    !.result = [mode |-> ModeLabel(mode),
                                leg |-> <<r.origin, r.dest, mode>>]]
     ELSE IF r.mi = Len(modes)
     THEN [r EXCEPT !.pc = "ret", !.calls = calls2]
     ELSE [r EXCEPT !.mi = r.mi + 1, !.calls = calls2]

\* the whole call, the directions service answering by oracle (mode -> outcome)
RECURSIVE RunRoute(_, _)
RunRoute(r, oracle) ==
  IF r.pc = "ret" THEN r ELSE RunRoute(RouteIter(r, oracle[modes[r.mi]]), oracle)

DirectionsOracles == [{"transit", "driving", "walking"} -> DirectionsOutcomes]

calculateRoute(originId, destId, oracle) ==
  RunRoute(RouteStart(originId, destId), oracle)

RouteIds == PlaceIds \cup {NoId}

(***************************************************************************)
(* The itinerary post-processor: the loops of /api/generate-trip (lines    *)
(* 753-833) and /api/modify-trip (lines 907-915, 943-997).  The drafted    *)
(* activities arrive one at a time (the draft is an opaque input); each    *)
(* passes through the day's loops in the source's order: deduplication,    *)
(* category correction (generate only), resolution, booking URL, merge.    *)
(* Resolution is the resolver above, run as task 1, one step per await.    *)
(* The model follows the server for MaxDrafted drafted activities, spread  *)
(* over any number of requests and over at most MaxDays days per request.  *)
(*   post.out      the itinerary being built, then the stored trip         *)
(*   post.src      history: the drafted activity behind each output entry  *)
(*   post.deduped  history: names the deduplication removed                *)
(*   post.reused   history: names taken from existingPlacesMap             *)
(*   post.transit  history: transit activities the deduplication let pass  *)
(*   post.routed   history: the pairs <<day, index>> calculateRoute was     *)
(*                 called for                                              *)
(*   post.trip     the itinerary stored by the last successful request     *)
(*   post.limit    the number of drafted activities the model follows      *)
(***************************************************************************)
MaxDrafted == 2
MaxDays == 2

Draft(n, ty, desc, b) ==
  [place_name |-> n, type |-> ty, activity_description |-> desc,
   is_booking_required |-> b]

\* the activities a draft is made of
DraftActs ==
  {Draft(<<"gyoja">>, "meal", <<"siksa">>, TRUE),
   Draft(<<"gyoja">>, "meal", <<"siksa">>, FALSE),
   Draft(<<"gyoza">>, "meal", <<"siksa">>, FALSE),
   Draft(<<"park">>, "sight", <<"walk">>, TRUE),
   Draft(<<"hotel", "checkin">>, "lodging", <<"rest">>, FALSE),
   Draft(<<"sukso">>, "lodging", <<"rest">>, FALSE),
   Draft(<<"idong">>, "sight", <<"bus">>, FALSE),
   Draft(<<"waxing", "shop">>, "meal", <<"cafe", "siksa">>, TRUE)}

\* lines 761 / 950: the names the deduplication lets through
DedupExempt(n) == Includes(n, "idong") \/ Includes(n, "sukso")

\* lines 793 / 963
IsTransit(n) == Includes(n, "idong") /\ ~Includes(n, "sukso")

beautyKeywords ==
  {"waxing", "beauty", "nail", "miyong", "spa", "massage", "skin", "esthetic", "hair"}

mealTerms == {"cafe", "siksa", "bakery", "bread"}

HasBeautyKeyword(act) ==
  \E kw \in beautyKeywords :
    Includes(act.place_name, kw) \/ Includes(act.activity_description, kw)

HasMealTerm(desc) == \E m \in mealTerms : Includes(desc, m)

\* `${act.place_name}에서 휴식 및 뷰티 체험을 즐깁니다.`
BeautyDescription(n) == n \o <<"eseo", "hyusik", "beauty", "cheheom">>

\* lines 771-786
CategoryFix(act) ==
  IF act.type = "meal" /\ HasBeautyKeyword(act)
  THEN [act EXCEPT !.type = "sight",
                   !.activity_description =
                      IF HasMealTerm(act.activity_description)
                      THEN BeautyDescription(act.place_name)
                      ELSE act.activity_description]
  ELSE act

SearchUrl(n) == [k |-> "search", q |-> n]

IsPark(details) ==
  Get(details, "types", {}) \cap {"park", "natural_feature"} # {}

\* mutant: the booking URL is derived without the park exclusion
BookingUrlNoPark(details, activity) ==
  IF activity.is_booking_required
  THEN IF Truthy(Get(details, "websiteUri", NullUrl)) THEN details.websiteUri
       ELSE IF Truthy(Get(details, "googleMapsUri", NullUrl)) THEN details.googleMapsUri
       ELSE SearchUrl(activity.place_name)
  ELSE NullUrl

\* lines 809-816 / 985-991
BookingUrl(details, activity) ==
  IF ~IsPark(details) /\ activity.is_booking_required
  THEN IF Truthy(Get(details, "websiteUri", NullUrl)) THEN details.websiteUri
       ELSE IF Truthy(Get(details, "googleMapsUri", NullUrl)) THEN details.googleMapsUri
       ELSE SearchUrl(activity.place_name)
  ELSE NullUrl

\* details.place_name || activity.place_name
MergedName(details, activity) ==
  IF Get(details, "place_name", NoName) # NoName THEN details.place_name
  ELSE activity.place_name

\* lines 818-826
GenerateData(activity, details) ==
  Spread(Spread(activity, details),
         [booking_url |-> BookingUrl(details, activity),
          place_name |-> MergedName(details, activity)])

\* lines 992-994
ModifyData(activity, details) ==
  Spread(Spread(Spread(activity, [booking_url |-> BookingUrl(details, activity)]),
                details),
         [place_name |-> MergedName(details, activity)])

\* lines 973-974
ExistingDetails(cached, activity) == Spread(cached, activity)

RECURSIVE Flatten(_)
Flatten(days) ==
  IF days = << >> THEN << >> ELSE Head(days) \o Flatten(Tail(days))

\* lines 908-915: the last activity of each name that carries a photoUrl
ExistingPlacesMap(itinerary) ==
  LET acts == Flatten(itinerary)
      ok(i) == /\ Get(acts[i], "place_name", NoName) # NoName
               /\ Truthy(Get(acts[i], "photoUrl", NullUrl))
      names == {acts[i].place_name : i \in {j \in 1..Len(acts) : ok(j)}}
      last(n) == CHOOSE i \in 1..Len(acts) :
                   /\ ok(i) /\ acts[i].place_name = n
                   /\ \A j \in (i + 1)..Len(acts) : ~(ok(j) /\ acts[j].place_name = n)
  IN [n \in names |-> acts[last(n)]]

AppendToDay(days, x) == [days EXCEPT ![Len(days)] = Append(@, x)]

\* what calculateRoute can return for a pair
RouteResults(originId, destId) ==
  {calculateRoute(originId, destId, oracle).result : oracle \in DirectionsOracles}

\* lines 999-1006: the days the route loop can make of a day, from index i on
RECURSIVE AnnotatedFrom(_, _)
AnnotatedFrom(day, i) ==
  IF i > Len(day) THEN {day}
  ELSE LET originId == Get(day[i - 1], "place_id", NoId)
           destId == Get(day[i], "place_id", NoId)
       IN IF originId # NoId /\ destId # NoId
          THEN UNION {AnnotatedFrom(
                        [day EXCEPT ![i] =
                           IF routeInfo # NoRoute
                           THEN Spread(day[i], [travel_info |-> routeInfo])
                           ELSE day[i]], i + 1) :
                      routeInfo \in RouteResults(originId, destId)}
          ELSE AnnotatedFrom(day, i + 1)

\* line 1002: the pairs of day d that calculateRoute is called for
RoutedPairs(days, d) ==
  {<<d, i>> : i \in {j \in 2..Len(days[d]) :
                       /\ Get(days[d][j - 1], "place_id", NoId) # NoId
                       /\ Get(days[d][j], "place_id", NoId) # NoId}}

\* the itineraries the end of the current day's loop body can leave:
\* modify-trip annotates the day's routes, generate-trip does not (834-848)
DayClosed(p) ==
  IF p.mode = "mod"
  THEN {[p EXCEPT !.out = [p.out EXCEPT ![Len(p.out)] = day],
                  !.routed = p.routed \cup RoutedPairs(p.out, Len(p.out))] :
        day \in AnnotatedFrom(p.out[Len(p.out)], 2)}
  ELSE {p}

ResolverUnchanged ==
  UNCHANGED <<cache, cacheOther, db, healq, task, prev, route, imgcall, sweep, dead, web>>

\* line 753: a generate request reaches the post-processing loop
BeginGenerate ==
  /\ post.pc = "idle" /\ post.ndrafted < post.limit
  /\ post' = [PostIdle EXCEPT !.pc = "draft", !.mode = "gen",
                              !.out = << << >> >>, !.src = << << >> >>,
                              !.ndrafted = post.ndrafted,
                              !.limit = post.limit, !.trip = post.trip]
  /\ ResolverUnchanged

\* lines 907-915, 943: a modify request of the stored trip
BeginModify ==
  /\ post.pc = "idle" /\ post.trip # << >> /\ post.ndrafted < post.limit
  /\ post' = [PostIdle EXCEPT !.pc = "draft", !.mode = "mod",
                              !.out = << << >> >>, !.src = << << >> >>,
                              !.existing = ExistingPlacesMap(post.trip),
                              !.ndrafted = post.ndrafted,
                              !.limit = post.limit, !.trip = post.trip]
  /\ ResolverUnchanged

CanDraft == post.pc = "draft" /\ post.ndrafted < post.limit

IsDuplicate(act) ==
  ~DedupExempt(act.place_name) /\ act.place_name \in post.seen

\* seenPlaces after the activity passed the deduplication
SeenWith(act) ==
  IF DedupExempt(act.place_name) THEN post.seen
  ELSE post.seen \cup {act.place_name}

\* the activity as the resolution loop receives it
Corrected(act) == IF post.mode = "gen" THEN CategoryFix(act) ELSE act

\* lines 764-767 / 953-956: a name seen before is not kept
DropDuplicate(act) ==
  /\ CanDraft /\ IsDuplicate(act)
  /\ post' = [post EXCEPT !.nacts = @ + 1, !.ndrafted = @ + 1,
                          !.deduped = @ \cup {act.place_name}]
  /\ ResolverUnchanged

\* lines 793-795 (kept as drafted) / 963-966 (skipped)
PassTransit(act) ==
  /\ CanDraft /\ ~IsDuplicate(act) /\ IsTransit(act.place_name)
  /\ post' = IF post.mode = "gen"
             THEN [post EXCEPT !.nacts = @ + 1, !.ndrafted = @ + 1, !.seen = SeenWith(act),
                               !.transit = @ \cup {act},
                               !.out = AppendToDay(@, Corrected(act)),
                               !.src = AppendToDay(@, act)]
             ELSE [post EXCEPT !.nacts = @ + 1, !.ndrafted = @ + 1, !.seen = SeenWith(act),
                               !.transit = @ \cup {act}]
  /\ ResolverUnchanged

\* lines 972-974, 983-994: details reused from the previous itinerary
ReuseExisting(act) ==
  /\ CanDraft /\ ~IsDuplicate(act) /\ ~IsTransit(act.place_name)
  /\ post.mode = "mod" /\ act.place_name \in DOMAIN post.existing
  /\ post' = [post EXCEPT
       !.nacts = @ + 1, !.ndrafted = @ + 1, !.seen = SeenWith(act),
       !.reused = @ \cup {act.place_name},
       !.out = AppendToDay(@, ModifyData(act,
                  ExistingDetails(post.existing[act.place_name], act))),
       !.src = AppendToDay(@, act)]
  /\ ResolverUnchanged

\* lines 797-803 / 975-979: the activity goes to the resolver
ResolveActivity(act) ==
  /\ CanDraft /\ ~IsDuplicate(act) /\ ~IsTransit(act.place_name)
  /\ ~(post.mode = "mod" /\ act.place_name \in DOMAIN post.existing)
  /\ StartFetch(1, act.place_name)
  /\ post' = [post EXCEPT !.pc = "resolving", !.nacts = @ + 1, !.ndrafted = @ + 1,
                          !.seen = SeenWith(act),
                          !.cur = Corrected(act), !.draft = act]

\* lines 804-826 / 980-994: the details arrive and are merged
Enrich ==
  /\ post.pc = "resolving"
  /\ TakeDetails(1)
  /\ post' = [post EXCEPT
       !.pc = "draft", !.cur = Absent, !.draft = Absent,
       !.out = AppendToDay(@, IF post.mode = "gen"
                              THEN GenerateData(post.cur, task[1].val)
                              ELSE ModifyData(post.cur, task[1].val)),
       !.src = AppendToDay(@, post.draft)]
  /\ UNCHANGED prev

\* lines 761 / 950, 876-880 / 1016-1019: the day's activities hold one
\* without place_name; act.place_name.includes throws when the day is
\* deduplicated, before any of its activities is resolved, and the handler's
\* catch answers 500: nothing is stored or returned
MalformedActivity ==
  /\ CanDraft /\ post.src[Len(post.src)] = << >>
  /\ post' = [PostIdle EXCEPT !.mode = "failed", !.ndrafted = post.ndrafted + 1,
                              !.limit = post.limit, !.trip = post.trip]
  /\ ResolverUnchanged

\* lines 756 / 947: the loop moves to the draft's next day
NewDay ==
  /\ CanDraft /\ post.nacts > 0 /\ Len(post.out) < MaxDays
  /\ \E closed \in DayClosed(post) :
       post' = [closed EXCEPT !.out = Append(@, << >>), !.src = Append(@, << >>)]
  /\ ResolverUnchanged

\* lines 863-877 / 1009-1014: the itinerary is stored and returned
EndRequest ==
  /\ post.pc = "draft" /\ post.nacts > 0
  /\ \E closed \in DayClosed(post) :
       post' = [closed EXCEPT !.pc = "idle", !.seen = {}, !.existing = EmptyMap,
                              !.trip = closed.out]
  /\ ResolverUnchanged

InitPost ==
  /\ cache = [n \in RawNames |-> Absent]
  /\ cacheOther = 0
  /\ db \in SUBSET SeedRows
  /\ healq = {}
  /\ task = [t \in Tasks |-> IdleTask]
  /\ prev = NoPrev
  /\ post = [PostIdle EXCEPT !.limit = MaxDrafted]
  /\ route = RouteIdle
  /\ imgcall = ImgIdle
  /\ sweep = NoSweep
  /\ dead = {}
  /\ WebIdle

NextPost ==
  \/ BeginGenerate
  \/ BeginModify
  \/ \E act \in DraftActs : DropDuplicate(act)
  \/ \E act \in DraftActs : PassTransit(act)
  \/ \E act \in DraftActs : ReuseExisting(act)
  \/ \E act \in DraftActs : ResolveActivity(act)
  \/ Enrich
  \/ MalformedActivity
  \/ NewDay
  \/ EndRequest
  \/ DbRead(1)
  \/ Heal(1)
  \/ HealGoogle(1)
  \/ HealWrite
  \/ Search(1)
  \/ Image(1)
  \/ Upsert(1)

SpecPost == InitPost /\ [][NextPost]_vars

(***************************************************************************)
(* Claims about the post-processor.                                        *)
(***************************************************************************)
OutActs == Flatten(post.out)
SrcActs == Flatten(post.src)

\* a request has been post-processed and its itinerary returned
Completed == post.pc = "idle" /\ post.mode \in {"gen", "mod"}

\* an enriched activity (a transit activity is passed through as drafted)
Enriched(a) == "booking_url" \in DOMAIN a

\* a transit marker or a lodging-state marker (lodging, check-in, return)
Structural(n) == Includes(n, "idong") \/ IsLodgingMarker(n)

\* C5: after post-processing no two non-structural activities of the
\* itinerary carry the same display name in the output.
C5_NoDuplicateNames ==
  Completed =>
    \A i, j \in 1..Len(OutActs) :
      (i < j /\ ~Structural(OutActs[i].place_name)
             /\ ~Structural(OutActs[j].place_name))
        => OutActs[i].place_name # OutActs[j].place_name

\* C6: an activity whose name carries a transit or lodging-state marker is
\* never removed by the deduplication.
C6_StructuralNeverDeduped ==
  \A n \in post.deduped : ~Structural(n)

\* C7: after post-processing (generate or modify) every activity drafted as
\* a meal with a beauty keyword in its name or description has category
\* sightseeing and a description without meal terms.
C7_CategoryFixed ==
  Completed =>
    \A i \in 1..Len(OutActs) :
      (SrcActs[i].type = "meal" /\ HasBeautyKeyword(SrcActs[i]))
        => /\ OutActs[i].type = "sight"
           /\ ~HasMealTerm(OutActs[i].activity_description)

\* C34: a transit activity (its name has the transit word and not the lodging
\* word) that passed the deduplication is in the returned itinerary as it was
\* drafted, without resolver fields, after generate and after modify.
C34_TransitKept ==
  Completed =>
    \A act \in post.transit : \E i \in 1..Len(OutActs) : OutActs[i] = act

C9_UnflaggedNoBookingUrl ==
  \A i \in 1..Len(OutActs) :
    (Enriched(OutActs[i]) /\ ~OutActs[i].is_booking_required)
      => OutActs[i].booking_url = NullUrl

\* the URL the priority order website -> map link -> search URL selects
PriorityUrl(place, drafted) ==
  IF Truthy(place.websiteUri) THEN place.websiteUri
  ELSE IF Truthy(place.googleMapsUri) THEN place.googleMapsUri
  ELSE SearchUrl(drafted.place_name)

\* C10: for a booking-required activity resolved (by in-process cache hit,
\* places_cache hit or external search) to a place that is not a park, the
\* booking URL is the place's website, else its map link, else the search URL.
C10_BookingPriority ==
  \A i \in 1..Len(OutActs) :
    (/\ Enriched(OutActs[i]) /\ OutActs[i].is_booking_required
     /\ Get(OutActs[i], "place_id", NoId) # NoId
     /\ ~IsPark(OutActs[i])
     /\ SrcActs[i].place_name \notin post.reused)
      => OutActs[i].booking_url =
           PriorityUrl(ExtPlace(OutActs[i].place_id), SrcActs[i])

\* C17: a draft activity whose name is missing does not abort the request:
\* no exception is raised and the other activities are still deduplicated
\* and enriched, so no request ends in failure.
C17_MalformedSkipped == post.mode # "failed"

(***************************************************************************)
(* The post-processor followed over a longer run of requests: a trip is    *)
(* generated and then modified repeatedly.  The drafts are made of fewer   *)
(* activities, each in one day, and places_cache starts with the rows that *)
(* carry an image.                                                         *)
(***************************************************************************)
MaxModifyDrafted == 5

ModifyActs ==
  {act \in DraftActs :
     act.place_name \in {<<"gyoja">>, <<"park">>, <<"hotel", "checkin">>}}

InitModify ==
  /\ cache = [n \in RawNames |-> Absent]
  /\ cacheOther = 0
  /\ db = {r \in SeedRows : Truthy(r.photo_url)}
  /\ healq = {}
  /\ task = [t \in Tasks |-> IdleTask]
  /\ prev = NoPrev
  /\ post = [PostIdle EXCEPT !.limit = MaxModifyDrafted]
  /\ route = RouteIdle
  /\ imgcall = ImgIdle
  /\ sweep = NoSweep
  /\ dead = {}
  /\ WebIdle

NextModify ==
  \/ BeginGenerate
  \/ BeginModify
  \/ \E act \in ModifyActs : DropDuplicate(act)
  \/ \E act \in ModifyActs : ReuseExisting(act)
  \/ \E act \in ModifyActs : ResolveActivity(act)
  \/ Enrich
  \/ EndRequest
  \/ DbRead(1)
  \/ Search(1)
  \/ Image(1)
  \/ Upsert(1)

SpecModify == InitModify /\ [][NextModify]_vars

\* C11: in a returned itinerary, for two adjacent activities of a day of
\* which either lacks a resolved identifier, no directions call was made for
\* the pair and the later activity has no travel info.
C11_RouteGap ==
  Completed =>
    \A d \in 1..Len(post.out) : \A i \in 2..Len(post.out[d]) :
      (\/ Get(post.out[d][i - 1], "place_id", NoId) = NoId
       \/ Get(post.out[d][i], "place_id", NoId) = NoId)
        => /\ <<d, i>> \notin post.routed
           /\ "travel_info" \notin DOMAIN post.out[d][i]

\* C33: in an itinerary returned by modify-trip an activity carries travel
\* info only if it and its predecessor in the day both have an identifier,
\* calculateRoute was called for the pair in this request and the travel
\* info is a result for exactly that pair: none is taken over from the
\* previous itinerary.
C33_TravelInfoFresh ==
  (Completed /\ post.mode = "mod") =>
    \A d \in 1..Len(post.out) : \A i \in 1..Len(post.out[d]) :
      "travel_info" \in DOMAIN post.out[d][i] =>
        /\ i >= 2
        /\ <<d, i>> \in post.routed
        /\ post.out[d][i].travel_info \in
             RouteResults(Get(post.out[d][i - 1], "place_id", NoId),
                          Get(post.out[d][i], "place_id", NoId)) \ {NoRoute}

\* line 1003: calculateRoute is called
CallRoute(originId, destId) ==
  /\ route.pc \in {"idle", "ret"}
  /\ route' = RouteStart(originId, destId)
  /\ UNCHANGED <<cache, cacheOther, db, healq, task, prev, post, imgcall, sweep, dead, web>>

\* line 393: the directions service answers
Directions ==
  /\ route.pc = "call"
  /\ \E outcome \in DirectionsOutcomes : route' = RouteIter(route, outcome)
  /\ UNCHANGED <<cache, cacheOther, db, healq, task, prev, post, imgcall, sweep, dead, web>>

NextRoute ==
  \/ \E originId, destId \in RouteIds : CallRoute(originId, destId)
  \/ Directions

SpecRoute == Init /\ [][NextRoute]_vars

\* C12: calculateRoute asks for transit, driving, walking in this order, a
\* mode only after every earlier mode gave no route or failed, at most three
\* times; it returns the first route found, labelled with its mode, and null
\* when no mode gives a route.
C12_ModeOrder ==
  route.pc # "idle" =>
    /\ Len(route.calls) <= 3
    /\ \A i \in 1..Len(route.calls) : route.calls[i].mode = modes[i]
    /\ \A i \in 1..(Len(route.calls) - 1) : route.calls[i].outcome # "ok"
    /\ route.pc = "call" =>
         \A i \in 1..Len(route.calls) : route.calls[i].outcome # "ok"
    /\ route.pc = "ret" =>
         IF \E i \in 1..Len(route.calls) : route.calls[i].outcome = "ok"
         THEN route.result =
                [mode |-> ModeLabel(route.calls[Len(route.calls)].mode),
                 leg |-> <<route.origin, route.dest,
                           route.calls[Len(route.calls)].mode>>]
         ELSE /\ route.result = NoRoute
              /\ (route.origin # NoId /\ route.dest # NoId)
                    => Len(route.calls) = 3

C12_Witness ==
  /\ route.pc = "ret" /\ Len(route.calls) = 3
  /\ route.calls[1].outcome = "fail" /\ route.calls[2].outcome = "none"
  /\ route.calls[3].outcome = "ok" /\ route.result.mode = "on_foot"

(***************************************************************************)
(* fetchNaverImage (lines 87-177): the tiers of image searches, one        *)
(* trySearch per step.  imgcall holds the call in progress and, as         *)
(* history, the searches it issued.  stage: 1 the raw query, 2 the query   *)
(* without its " by ..." suffix, 3 that plus "hotel", 4.. the raw query    *)
(* plus a travel keyword.                                                  *)
(* Tokens: "yeohaeng" "sajin" = 여행 사진, "gwangwang" "myeongso" = 관광   *)
(* 명소, "punggyeong" "sajin" = 풍경 사진, "hotel_ko" = 호텔.              *)
(***************************************************************************)
travelKeywords ==
  << <<"yeohaeng", "sajin">>, <<"gwangwang", "myeongso">>,
     <<"punggyeong", "sajin">>, <<"hotel_ko">> >>

\* query.toLowerCase().includes(' by ')
HasBy(query) == \E i \in 2..(Len(query) - 1) : query[i] \in {"by", "By", "BY"}

\* query.replace(/\s+by\s+.*$/i, '')
StripBy(query) ==
  LET first == CHOOSE i \in 2..(Len(query) - 1) :
                 /\ query[i] \in {"by", "By", "BY"}
                 /\ \A j \in 2..(i - 1) : query[j] \notin {"by", "By", "BY"}
  IN SubSeq(query, 1, first - 1)

\* what one trySearch request can answer: items, no items, or a throw
TrySearchOutcomes == {"items", "none", "fail"}

\* the link trySearch picks from the items of a search
NaverLink(searchQuery) == [k |-> "naver", q |-> searchQuery]

\* lines 87-91: the call starts; without credentials it returns null at once
ImgStart(query, retryWithKeywords, credentials) ==
  [pc |-> IF credentials THEN "search" ELSE "ret", query |-> query,
   retry |-> retryWithKeywords, credentials |-> credentials, stage |-> 1,
   calls |-> << >>, result |-> NullUrl]

\* the query of the search the call is about to issue
ImgQuery(c) ==
  IF c.stage = 1 THEN c.query
  ELSE IF c.stage = 2 THEN StripBy(c.query)
  ELSE IF c.stage = 3 THEN StripBy(c.query) \o <<"hotel">>
  ELSE c.query \o travelKeywords[c.stage - 3]

\* mutant: a throwing search ends the call with null
ImgIterStopOnFail(c, outcome) ==
  LET calls2 == Append(c.calls, [q |-> ImgQuery(c), outcome |-> outcome])
      next == IF c.stage = 1
              THEN (IF HasBy(c.query) THEN 2 ELSE IF c.retry THEN 4 ELSE 0)
              ELSE IF c.stage = 2 THEN 3
              ELSE IF c.stage = 3 THEN (IF c.retry THEN 4 ELSE 0)
              ELSE IF c.stage < 3 + Len(travelKeywords) THEN c.stage + 1
              ELSE 0
  IN IF outcome = "items"
     THEN [c EXCEPT !.pc = "ret", !.calls = calls2, !.result = NaverLink(ImgQuery(c))]
     ELSE IF next = 0 \/ outcome = "fail"
     THEN [c EXCEPT !.pc = "ret", !.calls = calls2]
     ELSE [c EXCEPT !.stage = next, !.calls = calls2]

\* lines 109-176: one trySearch and the choice of the next tier
ImgIter(c, outcome) ==
  LET calls2 == Append(c.calls, [q |-> ImgQuery(c), outcome |-> outcome])
      next == IF c.stage = 1
              THEN (IF HasBy(c.query) THEN 2 ELSE IF c.retry THEN 4 ELSE 0)
              ELSE IF c.stage = 2 THEN 3
              ELSE IF c.stage = 3 THEN (IF c.retry THEN 4 ELSE 0)
              ELSE IF c.stage < 3 + Len(travelKeywords) THEN c.stage + 1
              ELSE 0
  IN IF outcome = "items"
     THEN [c EXCEPT !.pc = "ret", !.calls = calls2, !.result = NaverLink(ImgQuery(c))]
     ELSE IF next = 0
     THEN [c EXCEPT !.pc = "ret", !.calls = calls2]
     ELSE [c EXCEPT !.stage = next, !.calls = calls2]

\* the queries fetchNaverImage is called with (lines 212, 335, 1036)
ImageQueries == {<<"gyoja">>, <<"l7", "by", "lotte">>, <<"stay", "BY", "by", "han">>}

\* fetchNaverImage(query) is called; every caller leaves retryWithKeywords at
\* its default
CallImage(query, credentials) ==
  /\ imgcall.pc \in {"idle", "ret"}
  /\ imgcall' = ImgStart(query, TRUE, credentials)
  /\ UNCHANGED <<cache, cacheOther, db, healq, task, prev, post, route, sweep, dead, web>>

\* lines 109-142: the image search answers
TrySearch ==
  /\ imgcall.pc = "search"
  /\ \E outcome \in TrySearchOutcomes : imgcall' = ImgIter(imgcall, outcome)
  /\ UNCHANGED <<cache, cacheOther, db, healq, task, prev, post, route, sweep, dead, web>>

NextImage ==
  \/ \E query \in ImageQueries : \E credentials \in BOOLEAN :
       CallImage(query, credentials)
  \/ TrySearch

SpecImage == Init /\ [][NextImage]_vars

\* the order of searches the tiers prescribe for a query
TierQueries(query) ==
  <<query>>
  \o (IF HasBy(query) THEN <<StripBy(query), StripBy(query) \o <<"hotel">> >>
      ELSE << >>)
  \o [i \in 1..Len(travelKeywords) |-> query \o travelKeywords[i]]

\* the searches issued so far follow the tier order, each after every earlier
\* one returned nothing, none twice; a found link is returned
TiersInOrder ==
  /\ Len(imgcall.calls) <= Len(TierQueries(imgcall.query))
  /\ \A i \in 1..Len(imgcall.calls) :
       imgcall.calls[i].q = TierQueries(imgcall.query)[i]
  /\ \A i \in 1..(Len(imgcall.calls) - 1) : imgcall.calls[i].outcome # "items"
  /\ \A i, j \in 1..Len(imgcall.calls) :
       i # j => imgcall.calls[i].q # imgcall.calls[j].q
  /\ (imgcall.pc = "ret" /\ imgcall.calls # << >>
        /\ imgcall.calls[Len(imgcall.calls)].outcome = "items")
       => imgcall.result = NaverLink(imgcall.calls[Len(imgcall.calls)].q)
  /\ imgcall.pc = "search" =>
       \A i \in 1..Len(imgcall.calls) : imgcall.calls[i].outcome # "items"

ReturnedNull ==
  /\ imgcall.pc = "ret"
  /\ \A i \in 1..Len(imgcall.calls) : imgcall.calls[i].outcome # "items"

\* C13 as stated: fetchNaverImage issues its searches in the tier order (raw
\* query; stripped name and stripped name plus hotel when the query has a
\* " by " suffix; raw query plus each travel keyword), a search only after
\* every earlier one returned nothing, none twice, returns the first link
\* found, and returns null only after every tier has failed.
C13_TierChain ==
  imgcall.pc # "idle" =>
    /\ TiersInOrder
    /\ ReturnedNull =>
         /\ imgcall.result = NullUrl
         /\ Len(imgcall.calls) = Len(TierQueries(imgcall.query))

\* C13 amended: the same when the image-search credentials are configured;
\* without them fetchNaverImage returns null without issuing any search.
C13_TierChainWithCredentials ==
  imgcall.pc # "idle" =>
    /\ TiersInOrder
    /\ ReturnedNull =>
         /\ imgcall.result = NullUrl
         /\ imgcall.credentials
              => Len(imgcall.calls) = Len(TierQueries(imgcall.query))
         /\ ~imgcall.credentials => imgcall.calls = << >>

C13_Witness ==
  /\ imgcall.pc = "ret" /\ HasBy(imgcall.query) /\ Len(imgcall.calls) = 7
  /\ imgcall.calls[1].outcome = "fail" /\ imgcall.calls[3].outcome = "none"
  /\ imgcall.calls[7].q = imgcall.query \o <<"hotel_ko">>
  /\ imgcall.result = NaverLink(imgcall.query \o <<"hotel_ko">>)

(***************************************************************************)
(* The image health sweep (jobs/image_cron, kept in                        *)
(* src/migrations/step4_add_constraints.sql lines 66-164): the scheduler   *)
(* starts runImageHealthCheck, which reads the entries that have an image, *)
(* probes each image with a HEAD request and replaces a broken one by the  *)
(* first link of one image search.  sweep is the sequence of runs started  *)
(* so far; found is the replacement a run is about to write.               *)
(* The resolver (one caller) runs beside the sweep.                        *)
(***************************************************************************)
MaxRuns == 2

\* isImageValid: the HEAD request succeeds (a proxy URL is relative: no host)
HeadOk(url) == url.k # "proxy" /\ url \notin dead

\* .select('*').not('photo_url', 'is', null), in the order of the identifiers
SweepRows(d) ==
  LET ids == <<"p1", "p2", "p3">>
      has(i) == \E r \in d : r.place_id = ids[i] /\ Truthy(r.photo_url)
      row(i) == CHOOSE r \in d : r.place_id = ids[i] /\ Truthy(r.photo_url)
      F[i \in 0..Len(ids)] ==
        IF i = 0 THEN << >>
        ELSE IF has(i) THEN Append(F[i - 1], row(i)) ELSE F[i - 1]
  IN F[Len(ids)]

\* mutant: an entry without replacement is removed
SweepRepairOrDelete(d, place, newPhotoUrl) ==
  IF Truthy(newPhotoUrl)
  THEN {IF r.place_id = place.place_id THEN [r EXCEPT !.photo_url = newPhotoUrl]
        ELSE r : r \in d}
  ELSE {r \in d : r.place_id # place.place_id}

\* lines 131-142: .update({ photo_url }).eq('place_id', id), or nothing
SweepRepair(d, place, newPhotoUrl) ==
  IF Truthy(newPhotoUrl)
  THEN {IF r.place_id = place.place_id THEN [r EXCEPT !.photo_url = newPhotoUrl]
        ELSE r : r \in d}
  ELSE d

SweepUnchanged ==
  UNCHANGED <<cache, cacheOther, healq, task, prev, post, route, imgcall, dead, web>>

\* lines 119, 145: the run moves to the next place, or completes; paced
\* tells whether the delay ran after the place it leaves (JS index i - 1)
SweepAdvance(run) ==
  IF run.i >= Len(run.places) THEN [run EXCEPT !.pc = "done"]
  ELSE [run EXCEPT !.pc = "head", !.i = run.i + 1,
                   !.paced = (run.i > 0 /\ (run.i - 1) % 10 = 0)]

\* lines 156-160: the schedule fires and calls runImageHealthCheck
CronTick ==
  /\ Len(sweep) < MaxRuns
  /\ sweep' = Append(sweep, [pc |-> "select", places |-> << >>, i |-> 0,
                              found |-> NullUrl, paced |-> FALSE])
  /\ UNCHANGED db /\ SweepUnchanged

\* lines 107-112, 150-152: the select answers; an error ends the run
SweepSelect(k) ==
  /\ k <= Len(sweep) /\ sweep[k].pc = "select"
  /\ \E ok \in BOOLEAN :
       sweep' = [sweep EXCEPT ![k] =
                   IF ok THEN SweepAdvance([@ EXCEPT !.places = SweepRows(db)])
                   ELSE [@ EXCEPT !.pc = "done"]]
  /\ UNCHANGED db /\ SweepUnchanged

\* lines 119-124: the HEAD request of the current place answers
SweepHead(k) ==
  /\ k <= Len(sweep) /\ sweep[k].pc = "head"
  /\ sweep' = [sweep EXCEPT ![k] =
                 IF HeadOk(@.places[@.i].photo_url) THEN SweepAdvance(@)
                 ELSE [@ EXCEPT !.pc = "search"]]
  /\ UNCHANGED db /\ SweepUnchanged

\* lines 72-89, 129-131: the image search for the place's name answers
SweepSearch(k) ==
  /\ k <= Len(sweep) /\ sweep[k].pc = "search"
  /\ LET place == sweep[k].places[sweep[k].i]
     IN \E newPhotoUrl \in {NullUrl, NaverImage, NaverLink(place.place_name)} :
          /\ sweep' = [sweep EXCEPT ![k] =
                IF Truthy(newPhotoUrl)
                THEN [@ EXCEPT !.pc = "update", !.found = newPhotoUrl]
                ELSE SweepAdvance(@)]
          /\ db' = IF Truthy(newPhotoUrl) THEN db
                   ELSE SweepRepair(db, place, newPhotoUrl)
  /\ SweepUnchanged

\* lines 132-135: the update reaches places_cache, or fails (no throw)
SweepUpdate(k) ==
  /\ k <= Len(sweep) /\ sweep[k].pc = "update"
  /\ \E ok \in BOOLEAN :
       db' = IF ok THEN SweepRepair(db, sweep[k].places[sweep[k].i], sweep[k].found)
             ELSE db
  /\ sweep' = [sweep EXCEPT ![k] = SweepAdvance([@ EXCEPT !.found = NullUrl])]
  /\ SweepUnchanged

SweepNames == {<<"park">>, <<"waxing", "shop">>}

InitSweep ==
  /\ cache = [n \in RawNames |-> Absent]
  /\ cacheOther = 0
  /\ db = SeedRows
  /\ healq = {}
  /\ task = [t \in Tasks |-> IdleTask]
  /\ prev = NoPrev
  /\ post = PostIdle
  /\ route = RouteIdle
  /\ imgcall = ImgIdle
  /\ sweep = NoSweep
  /\ dead = {NaverImage, NaverLink(<<"gyoja">>)}
  /\ WebIdle

NextSweep ==
  \/ CronTick
  \/ \E k \in 1..MaxRuns : SweepSelect(k)
  \/ \E k \in 1..MaxRuns : SweepHead(k)
  \/ \E k \in 1..MaxRuns : SweepSearch(k)
  \/ \E k \in 1..MaxRuns : SweepUpdate(k)
  \/ \E n \in SweepNames : StartResolve(1, n)
  \/ DbRead(1)
  \/ Heal(1)
  \/ HealGoogle(1)
  \/ HealWrite
  \/ Search(1)
  \/ Image(1)
  \/ Upsert(1)
  \/ Done(1)

SpecSweep == InitSweep /\ [][NextSweep]_vars

\* C14: the update of a sweep run changes the image URL of an entry only to
\* a URL that answers the HEAD request: the entry never ends up with a
\* different URL that is itself unreachable.
C14_RepairReachable ==
  [][LET PhotoOf(d, id) == {r.photo_url : r \in {x \in d : x.place_id = id}}
     IN \A k \in 1..Len(sweep) :
          sweep[k].pc = "update" /\ sweep'[k].pc # "update" =>
            \A id \in PlaceIds : \A u \in PhotoOf(db', id) :
              u \in PhotoOf(db, id) \/ HeadOk(u)]_vars

\* C15: at no time are two runs of runImageHealthCheck in progress.
C15_NoOverlap ==
  Cardinality({k \in 1..Len(sweep) : sweep[k].pc # "done"}) <= 1

\* C16: no step of the resolver, of the healing or of a sweep run removes an
\* identifier from places_cache, and a sweep step that ends the treatment of
\* a broken image without a replacement leaves places_cache as it was.
C16_NeverDeleted ==
  [][/\ {r.place_id : r \in db} \subseteq {r.place_id : r \in db'}
     /\ \A k \in 1..Len(sweep) :
          sweep[k].pc = "search" /\ sweep'[k].pc \in {"head", "done"}
            => db' = db]_vars

\* C29: a sweep run treats the entries it read one at a time, in order and
\* each once, and the pacing delay ran between the treatment of every two
\* consecutive entries.
C29_SweepPaced ==
  /\ [](\A k \in 1..Len(sweep) :
          sweep[k].pc \in {"head", "search", "update"} /\ sweep[k].i >= 2
            => sweep[k].paced)
  /\ [][\A k \in 1..Len(sweep) :
          /\ sweep'[k].i \in {sweep[k].i, sweep[k].i + 1}
          /\ sweep[k].pc \in {"search", "update"} => sweep'[k].pc # "head"
                                                      \/ sweep'[k].i = sweep[k].i + 1]_vars

\* the sweep beside the resolution of a spelling places_cache does not know
\* yet: the external search resolves it to an entry the run has read
NextSweepRace ==
  \/ CronTick
  \/ \E k \in 1..MaxRuns : SweepSelect(k)
  \/ \E k \in 1..MaxRuns : SweepHead(k)
  \/ \E k \in 1..MaxRuns : SweepSearch(k)
  \/ \E k \in 1..MaxRuns : SweepUpdate(k)
  \/ StartResolve(1, <<"kyoja">>)
  \/ DbRead(1)
  \/ Search(1)
  \/ Image(1)
  \/ Upsert(1)
  \/ Done(1)

SpecSweepRace == InitSweep /\ [][NextSweepRace]_vars

\* C35: the update of a sweep run changes the image URL of an entry only if
\* the URL stored at that moment is the one the run probed as unreachable:
\* a URL the resolver has written since the run's select is not replaced
\* (stated for a run beside which no other run has read or written yet).
C35_SweepWritesProbed ==
  [][\A k \in 1..Len(sweep) :
       (/\ sweep[k].pc = "update" /\ sweep'[k].pc # "update" /\ db' # db
        /\ \A j \in 1..Len(sweep) : j # k => sweep[j].pc = "select") =>
         LET place == sweep[k].places[sweep[k].i]
         IN \A r \in db :
              r.place_id = place.place_id => r.photo_url = place.photo_url]_vars

\* a run has met a broken image, found no replacement and completed, and
\* the entry still holds its broken image; the resolver has added an entry
C16_Witness ==
  /\ \E k \in 1..Len(sweep) :
       /\ sweep[k].pc = "done" /\ sweep[k].i > 0
       /\ \E j \in 1..Len(sweep[k].places) :
            LET place == sweep[k].places[j]
            IN ~HeadOk(place.photo_url) /\ place \in db
  /\ Cardinality(db) > Cardinality(SeedRows)

(***************************************************************************)
(* fetchPlaceDetails with the image search of its external path followed   *)
(* request by request: the call of line 335 is the fetchNaverImage call    *)
(* modelled above, one step per trySearch.  One caller; the healing's      *)
(* image search stays one step.                                            *)
(***************************************************************************)
\* lines 306-335: fetchNaverImage is called with the found place's name
ImageBegin ==
  /\ task[1].pc = "image" /\ imgcall.pc \in {"idle", "ret"}
  /\ \E credentials \in BOOLEAN :
       imgcall' = ImgStart(SearchName(task[1].name, ExtPlace(task[1].place)),
                           TRUE, credentials)
  /\ task' = [task EXCEPT ![1].pc = "imaging"]
  /\ UNCHANGED <<cache, cacheOther, db, healq, prev, post, route, sweep, dead, web>>

\* lines 335-341: fetchNaverImage has returned a link or null
ImageReturn ==
  /\ task[1].pc = "imaging" /\ imgcall.pc = "ret"
  /\ task' = [task EXCEPT ![1].pc = "upsert",
                          ![1].photo = PhotoOrFallback(imgcall.result,
                                                       ExtPlace(task[1].place))]
  /\ UNCHANGED <<cache, cacheOther, db, healq, prev, post, route, imgcall, sweep, dead, web>>

NextResolve ==
  \/ \E n \in ResolveNames : StartResolve(1, n)
  \/ DbRead(1)
  \/ Heal(1)
  \/ HealGoogle(1)
  \/ HealWrite
  \/ Search(1)
  \/ ImageBegin
  \/ TrySearch
  \/ ImageReturn
  \/ Upsert(1)
  \/ Done(1)

SpecResolve == Init /\ [][NextResolve]_vars

\* C19: fetchPlaceDetails never raises, whatever external call fails: it is
\* always at one of its awaits or has returned, and what it returns is a
\* place with a name; a places_cache read that yields no
\* entry (failed or empty) goes on to the external search, a failed external
\* search returns the name-only place, a healing lookup changes at most the
\* image of the entry returned, and a failed image search is followed by the search of
\* the next tier, the chain ending only at a link or after the last tier.
C19_NeverRaises ==
  /\ [](/\ task[1].pc \in {"idle", "await", "dbread", "heal", "healgoogle", "search",
                            "image", "imaging", "upsert", "got"}
        /\ task[1].pc = "got" =>
             /\ "place_name" \in DOMAIN task[1].val
             /\ task[1].val.place_name # NoName
        /\ (imgcall.pc # "idle" /\ imgcall.credentials) =>
             /\ \A i \in 1..(Len(imgcall.calls) - 1) :
                  imgcall.calls[i].outcome = "fail" =>
                    imgcall.calls[i + 1].q = TierQueries(imgcall.query)[i + 1]
             /\ (/\ imgcall.pc = "ret" /\ imgcall.calls # << >>
                 /\ imgcall.calls[Len(imgcall.calls)].outcome = "fail")
                  => Len(imgcall.calls) = Len(TierQueries(imgcall.query)))
  /\ [][/\ (task[1].pc = "dbread" /\ task'[1].pc # "dbread" /\ cache' = cache)
            => task'[1].pc = "search"
        /\ (task[1].pc = "search" /\ task'[1].pc = "got")
            => task'[1].val = [place_name |-> task[1].name,
                               photoUrl |-> FALLBACK_IMAGE_URL]
        /\ (task[1].pc = "healgoogle" /\ task'[1].pc = "got")
            => [task'[1].val EXCEPT !.photoUrl = NullUrl, !.photoReference = NoRef]
                 = ConvertRow(task[1].name, task[1].row)]_vars

\* the read of an existing entry failed, the external search found the place,
\* every image tier failed or found nothing and the upsert failed: the place
\* is returned with the generic image
C19_Witness ==
  /\ task[1].pc = "got" /\ task[1].via = "ext" /\ task[1].name = <<"gyoza">>
  /\ task[1].val.place_id = "p1"
  /\ task[1].val.photoUrl = FALLBACK_IMAGES("food")
  /\ \E r \in db : r.place_id = "p1" /\ r.photo_url = NaverImage
  /\ imgcall.pc = "ret" /\ imgcall.credentials
  /\ Len(imgcall.calls) = 1 + Len(travelKeywords)
  /\ imgcall.calls[1].outcome = "fail" /\ imgcall.calls[2].outcome = "none"

(***************************************************************************)
(* One image search and the choice among its candidates: trySearch of the  *)
(* server (lines 94-142) and fetchNaverImage of the health sweep job       *)
(* (step4_add_constraints.sql lines 72-89).  Both send the same query with *)
(* the same sort, so the job's single candidate is the first of the        *)
(* server's list.  A link is the parts of its URL and its rank in the      *)
(* answer; imgcall holds the answered search, one search being followed.   *)
(***************************************************************************)
MaxItems == 3

\* lines 94-107: no denylist pattern occurs in the URL
isValidImageUrl(url) ==
  /\ url # NullUrl
  /\ ~\E pattern \in {"profile", "avatar", "user", "thumbnail", "icon", "logo",
                      "banner", "advertisement", "ad_", "spotify", "album",
                      "cover", "music", "person", "people", "exp.cdn-hotels.com",
                      "tripadvisor", "agoda", "booking.com", "hotels.com",
                      "imgnews.naver.net", "news.naver.com"} :
        Includes(url.parts, pattern)

\* the candidate lists a search is answered with (response.data.items)
ImageItems ==
  LET links == {<<"pstatic.net", "photo">>, <<"pstatic.net", "profile">>,
                <<"example.com", "photo">>, <<"tripadvisor", "photo">>}
      kinds == links \X BOOLEAN
      item(kind, i) ==
        [link |-> [k |-> "link", parts |-> kind[1], i |-> i],
         thumbnail |-> IF kind[2] THEN [k |-> "thumb", parts |-> <<"thumbnail">>, i |-> i]
                       ELSE NullUrl]
  IN UNION {{[i \in 1..n |-> item(ks[i], i)] : ks \in [1..n -> kinds]} :
            n \in 1..MaxItems}

\* mutant: the second loop returns the first candidate unfiltered
trySearchPickUnfiltered(items) ==
  LET hosted(url) == \E d \in {"pstatic.net", "blog.naver.com", "post.naver.com"} :
                       Includes(url.parts, d)
      first[i \in 1..(Len(items) + 1)] ==
        IF i > Len(items) THEN 0
        ELSE IF hosted(items[i].link) /\ isValidImageUrl(items[i].link) THEN i
        ELSE first[i + 1]
  IN IF first[1] # 0 THEN items[first[1]].link
     ELSE items[1].link

\* lines 115-138: the link trySearch returns for a non-empty candidate list
trySearchPick(items) ==
  LET hosted(url) == \E d \in {"pstatic.net", "blog.naver.com", "post.naver.com"} :
                       Includes(url.parts, d)
      first[i \in 1..(Len(items) + 1)] ==
        IF i > Len(items) THEN 0
        ELSE IF hosted(items[i].link) /\ isValidImageUrl(items[i].link) THEN i
        ELSE first[i + 1]
      valid[i \in 1..(Len(items) + 1)] ==
        IF i > Len(items) THEN 0
        ELSE IF isValidImageUrl(items[i].link) THEN i
        ELSE valid[i + 1]
  IN IF first[1] # 0 THEN items[first[1]].link
     ELSE IF valid[1] # 0 THEN items[valid[1]].link
     ELSE IF Truthy(items[1].thumbnail) THEN items[1].thumbnail
     ELSE items[1].link

\* server.js lines 111-138: a search of the server is answered with candidates
TrySearchItems ==
  /\ imgcall.pc = "idle"
  /\ \E items \in ImageItems :
       imgcall' = [pc |-> "picked", by |-> "server", items |-> items,
                   result |-> trySearchPick(items)]
  /\ UNCHANGED <<cache, cacheOther, db, healq, task, prev, post, route, sweep, dead, web>>

\* step4_add_constraints.sql lines 74-84: the job's search (display: 1) is
\* answered with the first candidate, whose link it returns
CronSearchItems ==
  /\ imgcall.pc = "idle"
  /\ \E items \in ImageItems :
       imgcall' = [pc |-> "picked", by |-> "cron", items |-> items,
                   result |-> SubSeq(items, 1, 1)[1].link]
  /\ UNCHANGED <<cache, cacheOther, db, healq, task, prev, post, route, sweep, dead, web>>

NextPick ==
  \/ TrySearchItems
  \/ CronSearchItems

SpecPick == Init /\ [][NextPick]_vars

\* C22: the URL the sweep's search returns, and the sweep stores, for a list
\* of candidates is the URL the server's denylist-filtered search returns for
\* it, so it is not a URL the denylist rejects while an acceptable candidate
\* exists.
C22_SweepUsesResolverPipeline ==
  (imgcall.pc = "picked" /\ imgcall.by = "cron") =>
    /\ imgcall.result = trySearchPick(imgcall.items)
    /\ \/ isValidImageUrl(imgcall.result)
       \/ \A i \in 1..Len(imgcall.items) : ~isValidImageUrl(imgcall.items[i].link)

\* C26: for a non-empty candidate list trySearch returns the first candidate
\* on an embeddable domain that passes the denylist, else the first candidate
\* that passes the denylist, else the first candidate's thumbnail if it has
\* one, else the first candidate's link; a denylisted link is returned only
\* when every candidate is denylisted.
C26_CandidateFiltering ==
  (imgcall.pc = "picked" /\ imgcall.by = "server") =>
    LET items == imgcall.items
        Ok(i) == isValidImageUrl(items[i].link)
        Emb(i) == Ok(i) /\ items[i].link.parts[1] = "pstatic.net"
        idx == 1..Len(items)
    IN /\ (\E i \in idx : Emb(i)) =>
            \E i \in idx : /\ Emb(i) /\ \A j \in 1..(i - 1) : ~Emb(j)
                           /\ imgcall.result = items[i].link
       /\ (~(\E i \in idx : Emb(i)) /\ \E i \in idx : Ok(i)) =>
            \E i \in idx : /\ Ok(i) /\ \A j \in 1..(i - 1) : ~Ok(j)
                           /\ imgcall.result = items[i].link
       /\ (~\E i \in idx : Ok(i)) =>
            imgcall.result = IF items[1].thumbnail # NullUrl
                             THEN items[1].thumbnail ELSE items[1].link
       /\ (imgcall.result.k = "link" /\ ~isValidImageUrl(imgcall.result))
            => \A i \in idx : ~Ok(i)

\* a later candidate on an embeddable domain is preferred to an earlier
\* acceptable one, a denylisted embeddable candidate being passed over
C26_Witness ==
  /\ imgcall.pc = "picked" /\ imgcall.by = "server" /\ Len(imgcall.items) = 3
  /\ imgcall.items[1].link.parts = <<"pstatic.net", "profile">>
  /\ imgcall.items[2].link.parts = <<"example.com", "photo">>
  /\ imgcall.items[3].link.parts = <<"pstatic.net", "photo">>
  /\ imgcall.result = imgcall.items[3].link

(***************************************************************************)
(* The resolver beside the resolutions of names the model does not follow, *)
(* which fill placeDetailsCache: concurrent resolutions of two spellings   *)
(* of one place and of a lodging marker.                                   *)
(***************************************************************************)
NextCache ==
  \/ \E t \in Tasks : \E n \in {<<"gyoza">>, <<"kyoja">>, <<"hotel", "checkin">>} :
       StartResolve(t, n)
  \/ \E t \in Tasks : DbRead(t)
  \/ \E t \in Tasks : Search(t)
  \/ \E t \in Tasks : Image(t)
  \/ \E t \in Tasks : Upsert(t)
  \/ \E t \in Tasks : Done(t)
  \/ OthersFill

SpecCache == Init /\ [][NextCache]_vars

\* C23: placeDetailsCache never holds more than MAX_CACHE_SIZE entries, and
\* an insertion of a new key made while it is at capacity leaves it with that
\* key alone.
C23_CacheBounded ==
  /\ [](CacheSize(cache, cacheOther) <= MAX_CACHE_SIZE)
  /\ [][\A n \in RawNames :
          (/\ CacheSize(cache, cacheOther) >= MAX_CACHE_SIZE
           /\ ~CacheHas(cache, n) /\ CacheHas(cache', n))
            => CacheSize(cache', cacheOther') = 1]_vars

\* C27: resolutions that resolve to one identifier leave places_cache with
\* at most one entry for it, and the entry does not depend on the order in
\* which two of them wrote: when a resolution writes over what another one,
\* which has returned and not yet been taken, wrote for the same identifier,
\* places_cache is what the two writes made in the other order leave.
C27_Converges ==
  /\ [](\A r1, r2 \in db : r1.place_id = r2.place_id => r1 = r2)
  /\ [][\A t1, t2 \in Tasks :
          LET place == ExtPlace(task[t1].place)
              row1 == UpsertRow(task[t1].name,
                                PlaceData(task[t1].name, place, task[t1].photo), place)
              row2 == UpsertRow(task[t2].name, task[t2].val, place)
          IN (/\ task[t1].pc = "upsert" /\ task'[t1].pc = "got" /\ db' # db
              /\ task[t2].pc = "got" /\ task[t2].via = "ext"
              /\ task[t2].val.place_id = task[t1].place
              /\ row2 \in db)
               => db' = DbUpsert(DbUpsert(db, row1), row2)]_vars

\* C28: search_keywords accumulates the name variants of a place: an upsert
\* that rewrites an entry keeps every raw name its search_keywords held, and
\* the written entry holds the raw name, the resolved name and the formatted
\* address, so a lookup by any name resolved so far hits the entry.
C28_KeywordsAccumulate ==
  [][\A t \in Tasks :
       (task[t].pc = "upsert" /\ task'[t].pc = "got" /\ db' # db) =>
         \A r2 \in db' : r2.place_id = task[t].place =>
           /\ IsInfix(task[t].name, r2.search_keywords)
           /\ IsInfix(ExtPlace(task[t].place).displayName, r2.search_keywords)
           /\ IsInfix(ExtPlace(task[t].place).formattedAddress, r2.search_keywords)
           /\ \A r1 \in db : r1.place_id = r2.place_id =>
                \A n \in RawNames :
                  IsInfix(n, r1.search_keywords) => IsInfix(n, r2.search_keywords)]_vars

(***************************************************************************)
(* The scheduling of a day's resolver calls by the two handlers.  post.src *)
(* holds the day's activities after the deduplication (none of them a      *)
(* transit, none known to existingPlacesMap), post.nacts the number of     *)
(* them whose callback or loop body has started.  The merge of the details *)
(* into the itinerary is followed in SpecPost.                             *)
(*   generate-trip: idle -> map -> all -> idle                             *)
(*   modify-trip:   idle -> loop -> paced -> resolving -> loop ... -> idle *)
(***************************************************************************)
\* lines 753-788 / 943-959: a request reaches the enrichment of a day
BeginDay(mode) ==
  LET acts == {a \in DraftActs : a.place_name \in {<<"gyoza">>, <<"park">>}}
      days == {<<a>> : a \in acts}
                \cup {d \in acts \X acts : d[1].place_name # d[2].place_name}
  IN /\ post.pc = "idle" /\ \A t \in Tasks : task[t].pc = "idle"
     /\ \E day \in days :
          post' = [PostIdle EXCEPT !.pc = IF mode = "gen" THEN "map" ELSE "loop",
                                   !.mode = mode, !.src = <<day>>]
     /\ ResolverUnchanged

\* lines 790-803: activities.map runs the callback of the next activity up
\* to its await; the callbacks of a day all start in the same turn
MapCallback ==
  /\ post.pc = "map"
  /\ StartFetch(post.nacts + 1, post.src[1][post.nacts + 1].place_name)
  /\ post' = [post EXCEPT !.nacts = @ + 1,
                          !.pc = IF post.nacts + 1 = Len(post.src[1]) THEN "all"
                                 ELSE "map"]

\* lines 828-832: Promise.all settles when every callback has its details
PromiseAll ==
  /\ post.pc = "all"
  /\ \A t \in 1..Len(post.src[1]) : task[t].pc = "got"
  /\ task' = [t \in Tasks |-> IdleTask]
  /\ post' = PostIdle
  /\ UNCHANGED <<cache, cacheOther, db, healq, prev, route, imgcall, sweep, dead, web>>

\* line 968: await delay(200)
ModifyDelay ==
  /\ post.pc = "loop"
  /\ post' = [post EXCEPT !.pc = "paced"]
  /\ ResolverUnchanged

\* lines 970-979: the loop body hands the activity to the resolver
ModifyFetch ==
  /\ post.pc = "paced"
  /\ StartFetch(1, post.src[1][post.nacts + 1].place_name)
  /\ post' = [post EXCEPT !.pc = "resolving", !.nacts = @ + 1]

\* lines 980-994, 961: the details arrive; the loop goes on or ends
ModifyTake ==
  /\ post.pc = "resolving"
  /\ TakeDetails(1)
  /\ post' = IF post.nacts = Len(post.src[1]) THEN PostIdle
             ELSE [post EXCEPT !.pc = "loop"]
  /\ UNCHANGED prev

\* the continuations of the resolver run once the turn of the map has ended
NextEnrich ==
  \/ \E mode \in {"gen", "mod"} : BeginDay(mode)
  \/ MapCallback
  \/ PromiseAll
  \/ ModifyDelay
  \/ ModifyFetch
  \/ ModifyTake
  \/ \E t \in Tasks : post.pc # "map" /\ DbRead(t)
  \/ \E t \in Tasks : post.pc # "map" /\ Heal(t)
  \/ \E t \in Tasks : post.pc # "map" /\ HealGoogle(t)
  \/ post.pc # "map" /\ HealWrite
  \/ \E t \in Tasks : post.pc # "map" /\ Search(t)
  \/ \E t \in Tasks : post.pc # "map" /\ Image(t)
  \/ \E t \in Tasks : post.pc # "map" /\ Upsert(t)

SpecEnrich == Init /\ [][NextEnrich]_vars

\* C30: while a handler (generate or modify) enriches an itinerary, at most
\* one resolver call made for it is in flight, and every resolver call is
\* started right after the pacing delay.
C30_Serialised ==
  /\ [](post.mode \in {"gen", "mod"} =>
          Cardinality({t \in Tasks : task[t].pc \notin {"idle", "got", "await"}}) <= 1)
  /\ [][\A t \in Tasks :
          (task[t].pc = "idle" /\ task'[t].pc \notin {"idle", "got", "await"})
            => post.pc = "paced"]_vars

(***************************************************************************)
(* The monthly quota of /api/generate-trip, for one user within one        *)
(* calendar month (the reset of lines 677-683 does not run), and the       *)
(* DELETE handlers of the community and suggestion boards.                 *)
(*   gen[r].pc: idle -> work -> usage -> idle; gen[r].usage_count is the   *)
(*   usage_count the request read into userLimit.                          *)
(***************************************************************************)
MaxTrips == 7

PlacesUnchanged ==
  UNCHANGED <<cache, cacheOther, db, healq, task, prev, post, route, imgcall, sweep, dead>>

\* lines 670-693: the user_limits row is read and checked (403 at the limit)
GenLimit(r) ==
  /\ gen[r].pc = "idle" /\ completed < MaxTrips
  /\ LET userLimit == user_limits
         limit == TIER_LIMITS(userLimit.tier)
     IN gen' = IF userLimit.tier # "admin" /\ userLimit.usage_count >= limit
               THEN gen
               ELSE [gen EXCEPT ![r] = [pc |-> "work",
                                        usage_count |-> userLimit.usage_count]]
  /\ UNCHANGED <<user_limits, completed, ADMIN_EMAIL, rows, del>>
  /\ PlacesUnchanged

\* lines 695-870, 879-882: the itinerary is generated and inserted into
\* trip_plans, or an error is thrown and answered with 500
GenStore(r) ==
  /\ gen[r].pc = "work"
  /\ \E ok \in BOOLEAN :
       gen' = [gen EXCEPT ![r] = IF ok THEN [@ EXCEPT !.pc = "usage"] ELSE GenIdle]
  /\ UNCHANGED <<user_limits, completed, ADMIN_EMAIL, rows, del>>
  /\ PlacesUnchanged

\* lines 872-877: usage_count: userLimit.usage_count + 1 is written (or the
\* update fails: no throw) and the request is answered 200
GenUsage(r) ==
  /\ gen[r].pc = "usage"
  /\ \E ok \in BOOLEAN :
       user_limits' = IF ok
                      THEN [user_limits EXCEPT !.usage_count = gen[r].usage_count + 1]
                      ELSE user_limits
  /\ completed' = completed + 1
  /\ gen' = [gen EXCEPT ![r] = GenIdle]
  /\ UNCHANGED <<ADMIN_EMAIL, rows, del>>
  /\ PlacesUnchanged

\* lines 1373-1384 / 1522-1533 / 1763-1774: the row is selected (404 if none)
DeleteSelect(tb, id, user_id, email) ==
  /\ del.pc = "idle"
  /\ LET found == {row \in rows : row.table = tb /\ row.id = id}
     IN IF found = {} THEN UNCHANGED del
        ELSE \E row \in found :
               del' = [pc |-> "found", table |-> tb, id |-> id,
                       user_id |-> user_id, email |-> email, row |-> row]
  /\ UNCHANGED <<user_limits, gen, completed, ADMIN_EMAIL, rows>>
  /\ PlacesUnchanged

\* lines 1386-1395 / 1535-1544 / 1776-1785: isOwner, isAdmin, 403 or delete
DeleteRow ==
  /\ del.pc = "found"
  /\ LET isOwner == del.user_id # Undefined /\ del.row.user_id = del.user_id
         isAdmin == del.email = ADMIN_EMAIL
     IN IF ~isOwner /\ ~isAdmin THEN UNCHANGED rows
        ELSE \E ok \in BOOLEAN :
               rows' = IF ok
                       THEN {row \in rows : ~(row.table = del.table /\ row.id = del.id)}
                       ELSE rows
  /\ del' = DelIdle
  /\ UNCHANGED <<user_limits, gen, completed, ADMIN_EMAIL>>
  /\ PlacesUnchanged

\* the account has used its quota but for one request, or is new this
\* month; the administrator's address is configured, or is not
InitWeb ==
  /\ cache = [n \in RawNames |-> Absent]
  /\ cacheOther = 0
  /\ db = {}
  /\ healq = {}
  /\ task = [t \in Tasks |-> IdleTask]
  /\ prev = NoPrev
  /\ post = PostIdle
  /\ route = RouteIdle
  /\ imgcall = ImgIdle
  /\ sweep = NoSweep
  /\ dead = {}
  /\ user_limits \in {[tier |-> "free", usage_count |-> n] :
                        n \in {0, TIER_LIMITS("free") - 1}}
  /\ gen = [r \in Tasks |-> GenIdle]
  /\ completed = user_limits.usage_count
  /\ ADMIN_EMAIL \in {Undefined, "admin@x"}
  /\ rows = SeedBoard
  /\ del = DelIdle

NextLimit ==
  \/ \E r \in Tasks : GenLimit(r)
  \/ \E r \in Tasks : GenStore(r)
  \/ \E r \in Tasks : GenUsage(r)

SpecLimit == InitWeb /\ [][NextLimit]_vars

NextDelete ==
  \/ \E tb \in BoardTables : \E id \in {1, 2} :
       \E user_id \in {Undefined, "u1", "u2"} :
         \E email \in {Undefined, "admin@x", "user@x"} :
           DeleteSelect(tb, id, user_id, email)
  \/ DeleteRow

SpecDelete == InitWeb /\ [][NextDelete]_vars

\* C36: for a non-admin user the number of generate-trip requests answered
\* 200 within the month never exceeds the tier limit, usage_count equals
\* that number whenever no request is between its insert and its usage
\* update, and a request that fails leaves usage_count unchanged.
C36_TierLimit ==
  /\ [](user_limits.tier # "admin" =>
          /\ completed <= TIER_LIMITS(user_limits.tier)
          /\ (\A r \in Tasks : gen[r].pc # "usage")
               => user_limits.usage_count = completed)
  /\ [][\A r \in Tasks :
          (gen[r].pc # "idle" /\ gen'[r].pc = "idle" /\ completed' = completed)
            => user_limits' = user_limits]_vars

\* C37: a DELETE removes a row only when the request's user_id is the row's
\* owner or the request's email is the configured administrator address; a
\* request without a matching user_id and without an email removes nothing,
\* whether or not the administrator address is configured.
C37_DeleteAuthorized ==
  [][rows' # rows =>
       \/ del.user_id # Undefined /\ del.row.user_id = del.user_id
       \/ del.email # Undefined /\ ADMIN_EMAIL # Undefined /\ del.email = ADMIN_EMAIL]_vars

====
